---------------------------- MODULE Spec2Model ----------------------------
(***************************************************************************)
(* A model of canctool: an OpenAI-style tool-calling facade over a plain   *)
(* text-completion backend.  The pipeline of one chat completion is        *)
(*   classify -> trim + compile prompt -> [backend] -> parse -> assemble.  *)
(*                                                                         *)
(* Backend text is a sequence of lexemes (tokens); a token stands for the  *)
(* characters it spells, and the text is their concatenation.  Message     *)
(* contents and tool names are strings, of which the program reads the     *)
(* length and the emptiness, and which it copies into the prompt.          *)
(***************************************************************************)
EXTENDS Integers, Sequences, FiniteSets, TLC

VARIABLES
    \* --- the request being handled (main.py chat_completions) ---
    messages,           \* request.messages : sequence of ChatMessage
    tools,              \* request.tools    : sequence of tool descriptions
    max_prompt_length,  \* PromptEngineeringService.max_prompt_length
    pc,                 \* position of the handler
    branch,             \* which branch handle_unified_request took
    prompt,             \* the prompt handed to the backend
    llm_response,       \* the backend's text (a sequence of tokens)
    response,           \* what the caller receives
    \* --- results of the parser's functions applied to llm_response ---
    tool_call_data,     \* parse_tool_call(llm_response)
    clean_content,      \* extract_clean_response(llm_response)
    clean_twice,        \* extract_clean_response(clean_content)
    \* --- results of the trimmer's functions applied to messages ---
    tool_result,        \* the tool_result argument of the prompt builder
    trimmed_messages,   \* _trim_messages_to_fit(messages, tools, tool_result)
    \* --- how the backend text of this behaviour was drawn ---
    source,
    \* --- the collaborators the handler has invoked for this request, in order ---
    log,
    \* --- the class attributes of Config (config.py) ---
    SERVICE_API_KEY,
    REQUEST_TIMEOUT,
    MAX_RETRIES,
    _providers,               \* dict: provider name -> ProviderConfig
    _default_provider,        \* a provider name, or None
    _model_provider_mapping,  \* dict: model name -> provider name
    _config_loaded,
    \* --- the service and its surroundings ---
    env,                \* the configuration the environment holds at this moment
    returned,           \* what the last call of a Config method returned or raised
    endpoint,           \* the route of the request being handled
    credentials,        \* the bearer token of the request being handled, or None
    \* --- requests handled at the same time ---
    inflight,           \* per request: the locals of its chat_completions call
    \* --- _ensure_string_content taken alone ---
    content_value,      \* the content of a message, of any shape
    ensured,            \* what _ensure_string_content made of it
    \* --- the request body and the service object ---
    request,            \* the JSON body of the request: which fields it has, its model
    clients,            \* LLMService.clients: the provider names that have a client
    max_retries,        \* LLMService.max_retries
    attempt             \* call_llm: the attempts made so far for this request

vars == <<messages, tools, max_prompt_length, pc, branch, prompt, llm_response,
          response, tool_call_data, clean_content, clean_twice, tool_result,
          trimmed_messages, source, log, SERVICE_API_KEY, REQUEST_TIMEOUT, MAX_RETRIES,
          _providers, _default_provider, _model_provider_mapping, _config_loaded,
          env, returned, endpoint, credentials, inflight, content_value, ensured,
          request, clients, max_retries, attempt>>

reqVars   == <<messages, tools, max_prompt_length, branch, prompt>>
parseVars == <<tool_call_data, clean_content, clean_twice>>
trimVars  == <<tool_result, trimmed_messages>>
tableVars == <<_providers, _default_provider, _model_provider_mapping>>
cfgVars   == <<SERVICE_API_KEY, REQUEST_TIMEOUT, MAX_RETRIES, tableVars, _config_loaded>>
svcVars   == <<clients, max_retries, attempt>>
asideVars == <<inflight, content_value, ensured, svcVars>>
sideVars  == <<asideVars, request>>
apiVars   == <<env, returned, endpoint, credentials, sideVars>>
\* apiVars but for the attempts of call_llm
restVars  == <<env, returned, endpoint, credentials, inflight, content_value, ensured,
               request, clients, max_retries>>

\* A value for "not computed yet" / Python's None where a sequence or record is expected.
None == [none |-> TRUE]

(***************************************************************************)
(* Bounds of the model.                                                    *)
(***************************************************************************)
\* most members (keys, at all nesting levels together) of a generated JSON object
MaxMembers == 2
\* most members (at all nesting levels together) of a structured call's arguments
MaxArgMembers == 2
\* most tokens of free text before and after the marker span
MaxPad == 2
\* most messages in a generated history
MaxMsgs == 3
\* most items of a generated content list
MaxParts == 2

(***************************************************************************)
(* Tokens of backend text.                                                 *)
(***************************************************************************)
SP    == " "
LB    == "{"
RB    == "}"
COLON == ":"
COMMA == ","
NULL  == "null"
WORD  == "hi"

\* The literal TOOL_CALL: of the patterns, as two adjacent tokens, so that a
\* text can hold half a marker and a deletion can join two halves.
Marker == <<"TOOL_", "CALL:">>

\* The Python strings that occur as JSON strings in generated text.
StrNames == {"tool_name", "arguments", "a"}

Quote(s) == "\"" \o s \o "\""

StrToks == {Quote(s) : s \in StrNames}

Unquote(tok) == CHOOSE s \in StrNames : Quote(s) = tok

(***************************************************************************)
(* JSON values as Python decodes them: None, a str, or a dict.  A dict is  *)
(* the sequence of its items in insertion order, with distinct keys.       *)
(***************************************************************************)
JNull    == [t |-> "null", s |-> "", o |-> <<>>]
JStr(s)  == [t |-> "str", s |-> s, o |-> <<>>]
JObj(ms) == [t |-> "obj", s |-> "", o |-> ms]

KeysOf(ms) == {ms[i].k : i \in DOMAIN ms}

HasKey(ms, k) == k \in KeysOf(ms)

\* dict[k]
DictGet(ms, k) == (CHOOSE i \in DOMAIN ms : ms[i].k = k)

\* dict[k] = v : a new key is appended, an old key keeps its place
DictSet(ms, k, v) ==
    IF HasKey(ms, k)
    THEN [i \in DOMAIN ms |-> IF ms[i].k = k THEN [k |-> k, v |-> v] ELSE ms[i]]
    ELSE Append(ms, [k |-> k, v |-> v])

\* dict.get(k, default)
Get(ms, k, default) == IF HasKey(ms, k) THEN ms[DictGet(ms, k)].v ELSE default


(***************************************************************************)
(* json.loads on a token sequence: a recursive-descent decoder.  A result  *)
(* is [ok, v, n]: whether a value was decoded, the value, and the index of *)
(* the first token after it.  ok = FALSE is json.JSONDecodeError.          *)
(***************************************************************************)
DecodeError == [ok |-> FALSE, v |-> JNull, n |-> 0]

\* the first index >= i that holds no JSON whitespace (Len(g) + 1 at the end)
RECURSIVE SkipWs(_, _)
SkipWs(g, i) == IF i <= Len(g) /\ g[i] = SP THEN SkipWs(g, i + 1) ELSE i

RECURSIVE ScanValue(_, _), ScanMembers(_, _, _)

\* JSONDecoder.scan_once at index i (whitespace already skipped)
ScanValue(g, i) ==
    IF i > Len(g) THEN DecodeError
    ELSE IF g[i] \in StrToks THEN [ok |-> TRUE, v |-> JStr(Unquote(g[i])), n |-> i + 1]
    ELSE IF g[i] = NULL THEN [ok |-> TRUE, v |-> JNull, n |-> i + 1]
    ELSE IF g[i] = LB THEN
        LET j == SkipWs(g, i + 1) IN
        IF j <= Len(g) /\ g[j] = RB
        THEN [ok |-> TRUE, v |-> JObj(<<>>), n |-> j + 1]
        ELSE ScanMembers(g, j, <<>>)
    ELSE DecodeError

\* JSONObject: the members of an object from index j, which must hold a key;
\* acc is the dict built so far (a repeated key keeps its last value)
ScanMembers(g, j, acc) ==
    IF j > Len(g) \/ g[j] \notin StrToks THEN DecodeError
    ELSE
        LET key == Unquote(g[j])
            c   == SkipWs(g, j + 1)
        IN  IF c > Len(g) \/ g[c] # COLON THEN DecodeError
            ELSE
                LET r == ScanValue(g, SkipWs(g, c + 1)) IN
                IF ~r.ok THEN DecodeError
                ELSE
                    LET acc2 == DictSet(acc, key, r.v)
                        e    == SkipWs(g, r.n)
                    IN  IF e > Len(g) THEN DecodeError
                        ELSE IF g[e] = RB THEN [ok |-> TRUE, v |-> JObj(acc2), n |-> e + 1]
                        ELSE IF g[e] = COMMA THEN ScanMembers(g, SkipWs(g, e + 1), acc2)
                        ELSE DecodeError

\* json.loads(g): one value, then nothing but whitespace ("Extra data" otherwise)
json_loads(g) ==
    LET r == ScanValue(g, SkipWs(g, 1)) IN
    IF r.ok /\ SkipWs(g, r.n) = Len(g) + 1 THEN r ELSE DecodeError

(***************************************************************************)
(* json.dumps(v): the tokens of the text, with Python's ", " and ": ".     *)
(***************************************************************************)
RECURSIVE json_dumps(_), DumpMembers(_, _)

json_dumps(v) ==
    IF v.t = "null" THEN <<NULL>>
    ELSE IF v.t = "str" THEN <<Quote(v.s)>>
    ELSE <<LB>> \o DumpMembers(v.o, 1) \o <<RB>>

DumpMembers(ms, i) ==
    IF i > Len(ms) THEN <<>>
    ELSE (IF i > 1 THEN <<COMMA, SP>> ELSE <<>>)
         \o <<Quote(ms[i].k), COLON, SP>> \o json_dumps(ms[i].v)
         \o DumpMembers(ms, i + 1)

(***************************************************************************)
(* The marker pattern  TOOL_CALL:\s*(\{.*\})  with re.DOTALL.              *)
(***************************************************************************)
IsMarkerAt(t, i) ==
    /\ i + Len(Marker) - 1 <= Len(t)
    /\ \A k \in 1..Len(Marker) : t[i + k - 1] = Marker[k]

\* the indices of "}" in t
Closings(t) == {j \in 1..Len(t) : t[j] = RB}

Max(S) == CHOOSE x \in S : \A y \in S : y <= x
Min(S) == CHOOSE x \in S : \A y \in S : x <= y

\* where the group would begin for a match at i: after the marker and \s*
BraceAfter(t, i) == SkipWs(t, i + Len(Marker))

\* the pattern matches at position i of t
MatchesAt(t, i) ==
    /\ IsMarkerAt(t, i)
    /\ LET b == BraceAfter(t, i) IN
       /\ b <= Len(t)
       /\ t[b] = LB
       /\ \E j \in Closings(t) : j > b

\* MatchEnd with a lazy ".*?": the first "}" after the opening brace
MatchEnd_First(t, i) == Min({j \in Closings(t) : j > BraceAfter(t, i)})

\* the end of the match at i: ".*" is greedy, so the last "}" of the text
MatchEnd(t, i) == Max(Closings(t))

\* re.search from index from: the leftmost match, [found, start, brace, end]
NoMatch == [found |-> FALSE, start |-> 0, brace |-> 0, end |-> 0]

re_search(t, from) ==
    LET S == {i \in from..Len(t) : MatchesAt(t, i)} IN
    IF S = {} THEN NoMatch
    ELSE LET i == Min(S) IN
         [found |-> TRUE, start |-> i, brace |-> BraceAfter(t, i), end |-> MatchEnd(t, i)]

\* re.sub(pattern, '', t): every non-overlapping match, left to right
RECURSIVE re_sub(_, _)
re_sub(t, from) ==
    LET m == re_search(t, from) IN
    IF ~m.found THEN SubSeq(t, from, Len(t))
    ELSE SubSeq(t, from, m.start - 1) \o re_sub(t, m.end + 1)

\* str.strip(): whitespace off both ends
RECURSIVE strip(_)
strip(t) ==
    IF t = <<>> THEN t
    ELSE IF Head(t) = SP THEN strip(Tail(t))
    ELSE IF t[Len(t)] = SP THEN strip(SubSeq(t, 1, Len(t) - 1))
    ELSE t

\* PromptEngineeringService.parse_tool_call: None, or the dict it returns
parse_tool_call(llm) ==
    LET m == re_search(llm, 1) IN
    IF ~m.found THEN None
    ELSE LET d == json_loads(SubSeq(llm, m.brace, m.end)) IN
         IF ~d.ok THEN None
         ELSE [tool_name |-> Get(d.v.o, "tool_name", JNull),
               arguments |-> Get(d.v.o, "arguments", JObj(<<>>))]

\* extract_clean_response with the strip applied before the substitution
extract_clean_response_StripFirst(llm) == re_sub(strip(llm), 1)

\* PromptEngineeringService.extract_clean_response
extract_clean_response(llm) == strip(re_sub(llm, 1))


(***************************************************************************)
(* ResponseFormatter.format_unified_response.  A response is a record      *)
(* [kind, content, tool_calls, finish_reason]; kind "completion" is a      *)
(* ChatCompletionResponse, kind "error" an exception raised to the caller  *)
(* (chat_completions turns it into HTTP 500).  tool_calls = <<>> is the    *)
(* field's default None; the identifiers (uuid4) and the timestamp are     *)
(* fresh values that no branch reads, and are left out.                    *)
(***************************************************************************)
NoResponse == [kind |-> "none", content |-> <<>>, tool_calls |-> <<>>, finish_reason |-> ""]

Raised == [kind |-> "error", content |-> <<>>, tool_calls |-> <<>>, finish_reason |-> ""]

Completion(content, calls, reason) ==
    [kind |-> "completion", content |-> content, tool_calls |-> calls,
     finish_reason |-> reason]

\* ToolCall(id, type, function: Dict[str, str]): pydantic accepts the function
\* dict only when every value is a str; json.dumps always yields one, the
\* name is whatever the decoded JSON held
ToolCallValid(name) == name.t = "str"

\* format_unified_response with the backend text, not the clean text, as content
format_unified_response_RawContent(llm, check_tool_calls) ==
    LET data == IF check_tool_calls THEN parse_tool_call(llm) ELSE None
    IN  IF data # None
        THEN IF ToolCallValid(data.tool_name)
             THEN Completion(<<>>,
                             <<[name |-> data.tool_name.s,
                                arguments |-> json_dumps(data.arguments)]>>,
                             "tool_calls")
             ELSE Raised
        ELSE Completion(llm, <<>>, "stop")

format_unified_response(llm, check_tool_calls) ==
    LET data  == IF check_tool_calls THEN parse_tool_call(llm) ELSE None
        clean == IF check_tool_calls THEN extract_clean_response(llm) ELSE llm
    IN  IF data # None
        THEN IF ToolCallValid(data.tool_name)
             THEN Completion(<<>>,
                             <<[name |-> data.tool_name.s,
                                arguments |-> json_dumps(data.arguments)]>>,
                             "tool_calls")
             ELSE Raised
        ELSE Completion(clean, <<>>, "stop")

(***************************************************************************)
(* Backend texts.  JSON objects are generated up to a number of members;   *)
(* a text is the marker, a space and the dump of an object, possibly with  *)
(* one token deleted, possibly inside free text.                           *)
(***************************************************************************)
Scalars == {JNull, JStr("a")}

RECURSIVE Members(_), MembersOfSeq(_, _)
\* the number of members of a value, nested ones included
Members(v) == IF v.t = "obj" THEN MembersOfSeq(v.o, 1) ELSE 0
MembersOfSeq(ms, i) ==
    IF i > Len(ms) THEN 0 ELSE 1 + Members(ms[i].v) + MembersOfSeq(ms, i + 1)

RECURSIVE MemberSeqs(_)
\* the dicts (as item sequences) with at most n members in all
MemberSeqs(n) ==
    IF n <= 0 THEN {<<>>}
    ELSE {<<>>} \cup
         UNION { UNION { { <<[k |-> k, v |-> v]>> \o r :
                           r \in {q \in MemberSeqs(n - 1 - Members(v)) : ~HasKey(q, k)} } :
                         v \in Scalars \cup {JObj(ms) : ms \in MemberSeqs(n - 1)} } :
                 k \in StrNames }

\* t without its i-th token (t itself for i = 0)
DeleteAt(t, i) ==
    IF i = 0 THEN t ELSE SubSeq(t, 1, i - 1) \o SubSeq(t, i + 1, Len(t))

PadToks == {SP, WORD, LB, RB}

RECURSIVE SeqsUpTo(_, _)
SeqsUpTo(S, n) ==
    IF n = 0 THEN {<<>>}
    ELSE LET R == SeqsUpTo(S, n - 1) IN R \cup {Append(r, x) : r \in R, x \in S}

Pads == SeqsUpTo(PadToks, MaxPad)

\* the text of a source [obj, del, pre, suf]
Core(obj) == Marker \o <<SP>> \o json_dumps(JObj(obj))

TextOf(src) == src.pre \o DeleteAt(Core(src.obj), src.del) \o src.suf

\* the object {"tool_name": name, "arguments": args} of a structured call
CallObj(name, args) ==
    <<[k |-> "tool_name", v |-> JStr(name)], [k |-> "arguments", v |-> JObj(args)]>>

Bare(obj, del) == [obj |-> obj, del |-> del, pre |-> <<>>, suf |-> <<>>]

\* the structured calls, rendered as the backend is told to: intact (del = 0)
\* or with one token deleted
CallSources ==
    UNION { {Bare(CallObj(name, args), d) : d \in 0..Len(Core(CallObj(name, args)))} :
            name \in StrNames, args \in MemberSeqs(MaxArgMembers) }

\* every object after the marker, call-shaped or not, intact or with one token deleted
ObjectSources ==
    UNION { {Bare(o, d) : d \in 0..Len(Core(o))} : o \in MemberSeqs(MaxMembers) }

\* a marker span, whole or broken in its first tokens, inside free text
EmbeddedObjs ==
    {<<>>, <<[k |-> "tool_name", v |-> JStr("a")]>>, <<[k |-> "a", v |-> JNull]>>}

EmbeddedSources ==
    {[obj |-> o, del |-> d, pre |-> p, suf |-> q] :
        o \in EmbeddedObjs, d \in 0..4, p \in Pads, q \in Pads}

Sources == CallSources \cup ObjectSources \cup EmbeddedSources


(***************************************************************************)
(* Requests.  A ChatMessage is [role, content, tool_calls]; tool_calls is  *)
(* the sequence of the calls, each with its function's name and arguments, *)
(* <<>> for None or [].  A Tool is                                         *)
(* [name, description, properties]; a property is                          *)
(* [name, type, required, description], with no enum and no default.       *)
(***************************************************************************)
RECURSIVE Rep(_, _)
\* the string of n copies of s
Rep(s, n) ==
    IF n = 0 THEN ""
    ELSE IF n % 2 = 0 THEN LET h == Rep(s, n \div 2) IN h \o h
    ELSE s \o Rep(s, n - 1)

RECURSIVE Sum(_, _)
\* f[1] + ... + f[n]
Sum(f, n) == IF n = 0 THEN 0 ELSE f[n] + Sum(f, n - 1)

\* the arguments of the calls in generated histories: a JSON text
CallArguments == "{\"a\": 1}"

\* a tool_calls entry, as far as it is read: tool_call['function']
ToolCallEntry(name) == [function |-> [name |-> name, arguments |-> CallArguments]]

\* a ChatMessage; calls are the names of the tools its tool_calls call
Msg(role, content, calls) ==
    [role |-> role, content |-> content,
     tool_calls |-> [i \in DOMAIN calls |-> ToolCallEntry(calls[i])]]

\* Python's None as the content of a message (the null of the request's JSON):
\* a value that is no str; the model writes it as a string no message carries
NoneContent == "<None>"

\* the truth value Python gives a content: None and "" are false
Truthy(content) == content # NoneContent /\ content # ""

\* Config.MAX_PROMPT_LENGTH, the default budget
MAX_PROMPT_LENGTH == 200000

\* the constants of _calculate_prompt_length
BaseTemplateLength == 500
MessageOverhead == 50
ToolResultOverhead == 100

\* The lengths, in characters, of the literal text of the templates (counted
\* from the source; a template's length is that of its text with every
\* placeholder empty).
\* _tools_to_string, per tool: "\n工具名称: " "\n" "描述: " "\n" "参数:\n" and "\n"
ToolHeaderLen == 18
\* "  无参数\n"
NoParamsLen == 6
\* "  - " " (" ")" " (必需)" "\n    描述: " "\n"
RequiredParamLen == 22
\* "  - " " (" ")" " (可选, 默认值: None)" "\n    描述: " "\n"
OptionalParamLen == 33
\* "用户: "
UserPrefixLen == 4
\* "助手: "
AssistantPrefixLen == 4
\* "工具结果: "
ToolPrefixLen == 6
\* "调用工具 "
CallPrefixLen == 5
\* "; "
CallJoinLen == 2
\* the unified prompt with a conversation history
HistoryTemplateLen == 118
\* the unified prompt without one
ShortTemplateLen == 108
\* tools_info around the tool descriptions
ToolsInfoTemplateLen == 186
\* tool_result_info around the tool result
ToolResultTemplateLen == 44
\* "User: "
RegularUserPrefixLen == 6
\* "Assistant: "
RegularAssistantPrefixLen == 11
\* "\nAssistant: "
RegularSuffixLen == 12

\* PromptEngineeringService._ensure_string_content on None and on a str
ensure_string_content(content) == IF content = NoneContent THEN "" ELSE content

(***************************************************************************)
(* _ensure_string_content on a content of any shape.  A Python value is    *)
(* None, a str, an int, a list or a dict (the sequence of its items).  The *)
(* text of a str is its pieces in order: a literal, a line break, or the   *)
(* str() of a value that is not a str.                                     *)
(***************************************************************************)
Lit(s)   == [piece |-> "lit", lit |-> s, of |-> <<>>]
NL       == [piece |-> "nl", lit |-> "", of |-> <<>>]
StrOf(v) == [piece |-> "str", lit |-> "", of |-> <<v>>]

PyNone      == [t |-> "None", text |-> <<>>, items |-> <<>>, n |-> 0]
PyStr(text) == [t |-> "str", text |-> text, items |-> <<>>, n |-> 0]
PyInt(n)    == [t |-> "int", text |-> <<>>, items |-> <<>>, n |-> n]
PyList(xs)  == [t |-> "list", text |-> <<>>, items |-> xs, n |-> 0]
PyDict(ms)  == [t |-> "dict", text |-> <<>>, items |-> ms, n |-> 0]

\* str(v) of a value that is not a str
str(v) == PyStr(<<StrOf(v)>>)

RECURSIVE join(_)
\* "\n".join(parts) of parts that are all str
join(parts) ==
    IF parts = <<>> THEN <<>>
    ELSE IF Len(parts) = 1 THEN parts[1].text
    ELSE parts[1].text \o <<NL>> \o join(Tail(parts))

\* the loop over a list: what text_parts.append is given for an item
TextPart(item) ==
    IF item.t = "dict" /\ HasKey(item.items, "text") THEN Get(item.items, "text", PyNone)
    ELSE IF item.t = "str" THEN item
    ELSE str(item)

\* what a call gives: the value returned, or the exception
Gives(value) == [raised |-> FALSE, value |-> value]
TypeError    == [raised |-> TRUE, value |-> PyNone]

\* PromptEngineeringService._ensure_string_content
_ensure_string_content(content) ==
    IF content.t = "None" THEN Gives(PyStr(<<>>))
    ELSE IF content.t = "str" THEN Gives(content)
    ELSE IF content.t = "list" THEN
        LET text_parts == [i \in DOMAIN content.items |-> TextPart(content.items[i])] IN
        IF \E i \in DOMAIN text_parts : text_parts[i].t # "str" THEN TypeError
        ELSE Gives(PyStr(join(text_parts)))
    ELSE IF content.t = "dict" THEN
        IF HasKey(content.items, "text") THEN Gives(Get(content.items, "text", PyNone))
        ELSE Gives(str(content))
    ELSE Gives(str(content))

NotEnsured == [raised |-> FALSE, value |-> [t |-> "not called"]]

\* the pipeline and the service taken without this function
ContentAside == content_value = PyNone /\ ensured = NotEnsured

\* no request body is at hand
NoRequest == [has_model |-> FALSE, model |-> "", has_messages |-> FALSE]

\* the defaults of REQUEST_TIMEOUT and MAX_RETRIES
DefaultRequestTimeout == 30
DefaultMaxRetries == 3

\* no request body is at hand and LLMService() is not made yet: no client,
\* max_retries as the class attributes have MAX_RETRIES
ServiceAside ==
    request = NoRequest /\ clients = {} /\ max_retries = DefaultMaxRetries /\ attempt = 0

\* len(_tools_to_string(tools))
ParamLen(q) ==
    Len(q.name) + Len(q.type) + Len(q.description)
    + (IF q.required THEN RequiredParamLen ELSE OptionalParamLen)

ToolLen(tl) ==
    ToolHeaderLen + Len(tl.name) + Len(tl.description)
    + (IF tl.properties # <<>>
       THEN Sum([i \in DOMAIN tl.properties |-> ParamLen(tl.properties[i])],
                Len(tl.properties))
       ELSE NoParamsLen)

tools_to_string_len(tls) == Sum([i \in DOMAIN tls |-> ToolLen(tls[i])], Len(tls))

\* PromptEngineeringService._calculate_prompt_length
calculate_prompt_length(msgs, tls, result) ==
    LET tools_length       == IF tls # <<>> THEN tools_to_string_len(tls) ELSE 0
        tool_result_length == IF result # "" THEN Len(result) + ToolResultOverhead ELSE 0
        messages_length    ==
            Sum([i \in DOMAIN msgs |->
                    Len(ensure_string_content(msgs[i].content)) + MessageOverhead],
                Len(msgs))
    IN  BaseTemplateLength + tools_length + tool_result_length + messages_length

\* TrimLoop without the loop: one eviction, whatever the length then is
TrimLoop_DropOnce(trimmed, tls, result, budget) ==
    IF Len(trimmed) > 1 THEN Tail(trimmed) ELSE trimmed

RECURSIVE TrimLoop_DropNewest(_, _, _, _)
\* TrimLoop evicting from the wrong end: trimmed_messages[:-1]
TrimLoop_DropNewest(trimmed, tls, result, budget) ==
    IF Len(trimmed) > 1
    THEN LET rest == SubSeq(trimmed, 1, Len(trimmed) - 1) IN
         IF calculate_prompt_length(rest, tls, result) <= budget
         THEN rest
         ELSE TrimLoop_DropNewest(rest, tls, result, budget)
    ELSE trimmed

RECURSIVE TrimLoop(_, _, _, _)
\* the while loop of _trim_messages_to_fit: drop the oldest, stop when it fits
TrimLoop(trimmed, tls, result, budget) ==
    IF Len(trimmed) > 1
    THEN LET rest == Tail(trimmed) IN
         IF calculate_prompt_length(rest, tls, result) <= budget
         THEN rest
         ELSE TrimLoop(rest, tls, result, budget)
    ELSE trimmed

\* PromptEngineeringService._trim_messages_to_fit
trim_messages_to_fit(msgs, tls, result, budget) ==
    IF msgs = <<>> THEN msgs
    ELSE IF calculate_prompt_length(msgs, tls, result) <= budget THEN msgs
    ELSE TrimLoop(msgs, tls, result, budget)

(***************************************************************************)
(* The rendered prompt.  A history line is [label, text, calls]; a prompt  *)
(* is [kind, tools, tool_result, history, user_message], the parts the     *)
(* template is filled with; PromptLen is the length of the rendered text.  *)
(***************************************************************************)
Line(label, text, calls) == [label |-> label, text |-> text, calls |-> calls]

\* the line _format_conversation_history makes of one message; <<>> when skipped
HistoryLineOf(m) ==
    IF m.role = "user" THEN <<Line("user", ensure_string_content(m.content), <<>>)>>
    ELSE IF m.role = "assistant" THEN
        IF m.tool_calls # <<>>
        THEN <<Line("assistant_calls", "",
                    [i \in DOMAIN m.tool_calls |->
                        [tool_name |-> m.tool_calls[i].function.name]])>>
        ELSE IF Truthy(m.content) THEN <<Line("assistant", ensure_string_content(m.content), <<>>)>>
        ELSE <<>>
    ELSE IF m.role = "tool" THEN <<Line("tool", ensure_string_content(m.content), <<>>)>>
    ELSE <<>>

RECURSIVE format_conversation_history(_)
\* PromptEngineeringService._format_conversation_history: the lines, oldest first
format_conversation_history(msgs) ==
    IF msgs = <<>> THEN <<>>
    ELSE HistoryLineOf(Head(msgs)) \o format_conversation_history(Tail(msgs))

LineLen(l) ==
    IF l.label = "user" THEN UserPrefixLen + Len(l.text)
    ELSE IF l.label = "tool" THEN ToolPrefixLen + Len(l.text)
    ELSE IF l.label = "assistant" THEN AssistantPrefixLen + Len(l.text)
    ELSE AssistantPrefixLen
         + Sum([i \in DOMAIN l.calls |-> CallPrefixLen + Len(l.calls[i].tool_name)], Len(l.calls))
         + CallJoinLen * (Len(l.calls) - 1)

\* len("\n".join(lines))
HistoryLen(lines) ==
    IF lines = <<>> THEN 0
    ELSE Sum([i \in DOMAIN lines |-> LineLen(lines[i])], Len(lines)) + (Len(lines) - 1)

NoPrompt == [kind |-> "none", tools |-> <<>>, tool_result |-> "", history |-> <<>>,
             user_message |-> ""]

\* trimmed_messages[-1] of an empty list: IndexError
PromptError == [kind |-> "error", tools |-> <<>>, tool_result |-> "", history |-> <<>>,
                user_message |-> ""]

\* the f-string of build_unified_tool_prompt, given the trimmed messages
render_unified_prompt(trimmed, tls, result) ==
    IF trimmed = <<>> THEN PromptError
    ELSE [kind         |-> "unified",
          tools        |-> tls,
          tool_result  |-> ensure_string_content(result),
          history      |-> format_conversation_history(SubSeq(trimmed, 1, Len(trimmed) - 1)),
          user_message |-> ensure_string_content(trimmed[Len(trimmed)].content)]

\* PromptEngineeringService.build_unified_tool_prompt
build_unified_tool_prompt(msgs, tls, result, budget) ==
    render_unified_prompt(trim_messages_to_fit(msgs, tls, result, budget), tls, result)

\* the regular prompt of handle_unified_request: "User: c" for a user message,
\* "Assistant: c" for any other, in order, then "\nAssistant: "
RegularLineOf(m) ==
    Line(IF m.role = "user" THEN "regular_user" ELSE "regular_assistant",
         ensure_string_content(m.content), <<>>)

regular_prompt(msgs) ==
    [kind |-> "regular", tools |-> <<>>, tool_result |-> "",
     history |-> [i \in DOMAIN msgs |-> RegularLineOf(msgs[i])], user_message |-> ""]

RegularLineLen(l) ==
    (IF l.label = "regular_user" THEN RegularUserPrefixLen ELSE RegularAssistantPrefixLen)
    + Len(l.text)

\* len(prompt) of the text the backend is sent
PromptLen(p) ==
    IF p.kind = "unified" THEN
        (IF p.history # <<>> THEN HistoryTemplateLen + HistoryLen(p.history)
         ELSE ShortTemplateLen)
        + (IF p.tools # <<>> THEN ToolsInfoTemplateLen + tools_to_string_len(p.tools) ELSE 0)
        + (IF p.tool_result # "" THEN ToolResultTemplateLen + Len(p.tool_result) ELSE 0)
        + Len(p.user_message)
    ELSE IF p.kind = "regular" THEN
        (IF p.history = <<>> THEN 0
         ELSE Sum([i \in DOMAIN p.history |-> RegularLineLen(p.history[i])], Len(p.history))
              + (Len(p.history) - 1))
        + RegularSuffixLen
    ELSE 0


(***************************************************************************)
(* LLMService: classification of the request and the prompt it compiles.   *)
(***************************************************************************)
\* LLMService.should_use_tools
should_use_tools(tls) == tls # <<>>

RECURSIVE is_tool_result_request_Forward(_)
\* is_tool_result_request without reversed(): scanning from the oldest message
is_tool_result_request_Forward(msgs) ==
    IF msgs = <<>> THEN FALSE
    ELSE LET m == Head(msgs) IN
         IF m.role = "tool" THEN TRUE
         ELSE IF m.role = "assistant" /\ m.tool_calls # <<>> THEN FALSE
         ELSE is_tool_result_request_Forward(Tail(msgs))

RECURSIVE is_tool_result_request(_)
\* LLMService.is_tool_result_request: for message in reversed(messages)
is_tool_result_request(msgs) ==
    IF msgs = <<>> THEN FALSE
    ELSE LET m == msgs[Len(msgs)] IN
         IF m.role = "tool" THEN TRUE
         ELSE IF m.role = "assistant" /\ m.tool_calls # <<>> THEN FALSE
         ELSE is_tool_result_request(SubSeq(msgs, 1, Len(msgs) - 1))

RECURSIVE extract_tool_result_Oldest(_)
\* extract_tool_result without reversed(): the content of the oldest tool message
extract_tool_result_Oldest(msgs) ==
    IF msgs = <<>> THEN [found |-> FALSE, content |-> ""]
    ELSE LET m == Head(msgs) IN
         IF m.role = "tool"
         THEN [found |-> m.content # NoneContent, content |-> ensure_string_content(m.content)]
         ELSE extract_tool_result_Oldest(Tail(msgs))

RECURSIVE extract_tool_result(_)
\* LLMService.extract_tool_result: the content of the newest tool message, as
\* [found, content]; found = FALSE is a result of None
extract_tool_result(msgs) ==
    IF msgs = <<>> THEN [found |-> FALSE, content |-> ""]
    ELSE LET m == msgs[Len(msgs)] IN
         IF m.role = "tool"
         THEN [found |-> m.content # NoneContent, content |-> ensure_string_content(m.content)]
         ELSE extract_tool_result(SubSeq(msgs, 1, Len(msgs) - 1))

\* the text handle_unified_request returns without calling the backend
Sentinel == <<"Tool result not found">>

\* handle_unified_request testing "if not tool_result": an empty result
\* returns the sentinel as a None one does
handle_unified_request_FalsyResult(msgs, tls, budget) ==
    IF is_tool_result_request(msgs) THEN
        LET r == extract_tool_result(msgs) IN
        IF ~r.found \/ r.content = "" THEN [branch |-> "short_circuit", prompt |-> NoPrompt]
        ELSE [branch |-> "tool_result",
              prompt |-> build_unified_tool_prompt(msgs, tls, r.content, budget)]
    ELSE IF should_use_tools(tls) THEN
        [branch |-> "tool_call", prompt |-> build_unified_tool_prompt(msgs, tls, "", budget)]
    ELSE [branch |-> "regular", prompt |-> regular_prompt(msgs)]

\* handle_unified_request without the test of tool_result against None: the
\* prompt is built with the None result and the backend is called
handle_unified_request_NoShortCircuit(msgs, tls, budget) ==
    IF is_tool_result_request(msgs) THEN
        [branch |-> "tool_result",
         prompt |-> build_unified_tool_prompt(msgs, tls, extract_tool_result(msgs).content,
                                              budget)]
    ELSE IF should_use_tools(tls) THEN
        [branch |-> "tool_call", prompt |-> build_unified_tool_prompt(msgs, tls, "", budget)]
    ELSE [branch |-> "regular", prompt |-> regular_prompt(msgs)]

\* LLMService.handle_unified_request up to its call of the backend:
\* [branch, prompt]; branch "short_circuit" returns the sentinel instead
handle_unified_request(msgs, tls, budget) ==
    IF is_tool_result_request(msgs) THEN
        LET r == extract_tool_result(msgs) IN
        IF ~r.found THEN [branch |-> "short_circuit", prompt |-> NoPrompt]
        ELSE [branch |-> "tool_result",
              prompt |-> build_unified_tool_prompt(msgs, tls, r.content, budget)]
    ELSE IF should_use_tools(tls) THEN
        [branch |-> "tool_call", prompt |-> build_unified_tool_prompt(msgs, tls, "", budget)]
    ELSE [branch |-> "regular", prompt |-> regular_prompt(msgs)]

(***************************************************************************)
(* Config (config.py): providers and routing tables.  A dict is the        *)
(* sequence of its items [k, v] in insertion order.  A base_url and the    *)
(* name of a header are sequences of pieces of text, a base_url with "/"   *)
(* as a piece of its own, a header name one character a piece; other       *)
(* strings are read whole.  NoneStr is Python's None where a str may be.   *)
(***************************************************************************)
NoneStr == NoneContent

\* the truth value of an Optional[str]
TruthyStr(x) == x # NoneStr /\ x # ""

SLASH == "/"

RECURSIVE rstrip_slash(_)
\* base_url.rstrip('/')
rstrip_slash(u) ==
    IF u # <<>> /\ u[Len(u)] = SLASH THEN rstrip_slash(SubSeq(u, 1, Len(u) - 1)) ELSE u

UpperCase == <<"A", "B", "C", "D", "E", "F", "G", "H", "I", "J", "K", "L", "M",
               "N", "O", "P", "Q", "R", "S", "T", "U", "V", "W", "X", "Y", "Z">>
LowerCase == <<"a", "b", "c", "d", "e", "f", "g", "h", "i", "j", "k", "l", "m",
               "n", "o", "p", "q", "r", "s", "t", "u", "v", "w", "x", "y", "z">>

\* str.lower(), character by character
lower(k) ==
    [i \in DOMAIN k |->
        IF \E j \in DOMAIN UpperCase : UpperCase[j] = k[i]
        THEN LowerCase[CHOOSE j \in DOMAIN UpperCase : UpperCase[j] = k[i]]
        ELSE k[i]]

\* needle in hay, for strings as sequences of characters
Contains(hay, needle) ==
    \E i \in 1..(Len(hay) - Len(needle) + 1) :
        SubSeq(hay, i, i + Len(needle) - 1) = needle

Masked == "***"

\* ProviderConfig.__init__
ProviderConfig(name, base_url, api_key, models, headers) ==
    [name |-> name, base_url |-> rstrip_slash(base_url), api_key |-> api_key,
     models |-> models, headers |-> headers]

\* ProviderConfig.to_dict
to_dict(p) ==
    [name     |-> p.name,
     base_url |-> p.base_url,
     api_key  |-> IF TruthyStr(p.api_key) THEN Masked ELSE NoneStr,
     models   |-> p.models,
     headers  |-> [i \in DOMAIN p.headers |->
                     [k |-> p.headers[i].k,
                      v |-> IF \/ Contains(lower(p.headers[i].k), <<"k", "e", "y">>)
                               \/ Contains(lower(p.headers[i].k), <<"t", "o", "k", "e", "n">>)
                            THEN Masked ELSE p.headers[i].v]]]

\* the class attributes of Config as one value
ConfigState(key, timeout, retries, providers, default, mapping, loaded) ==
    [SERVICE_API_KEY |-> key, REQUEST_TIMEOUT |-> timeout, MAX_RETRIES |-> retries,
     providers |-> providers, default_provider |-> default, mapping |-> mapping,
     config_loaded |-> loaded]

\* the class attributes as the class statement sets them
ClassAttributes ==
    ConfigState(NoneStr, DefaultRequestTimeout, DefaultMaxRetries, <<>>, NoneStr, <<>>, FALSE)

\* what a call returns: the attributes after it, whether it raised, its value
Return(c, value) == [c |-> c, raised |-> FALSE, value |-> value]
RaisedIn(c)        == [c |-> c, raised |-> TRUE, value |-> None]

\* Config._load_service_config; service_config is a dict
load_service_config(c, service_config) ==
    [c EXCEPT !.SERVICE_API_KEY = Get(service_config, "service_api_key", NoneStr),
              !.REQUEST_TIMEOUT = Get(service_config, "request_timeout", c.REQUEST_TIMEOUT),
              !.MAX_RETRIES     = Get(service_config, "max_retries", c.MAX_RETRIES)]

RECURSIVE AddModels(_, _, _)
\* for model in provider.models: _model_provider_mapping[model] = provider_name
AddModels(mapping, models, provider_name) ==
    IF models = <<>> THEN mapping
    ELSE AddModels(DictSet(mapping, Head(models), provider_name), Tail(models), provider_name)

RECURSIVE AddProviders(_, _)
\* the loop of _load_providers_from_dict over providers.items(); a provider
\* without "base_url" raises KeyError and leaves the tables as they then are
AddProviders(c, items) ==
    IF items = <<>> THEN Return(c, None)
    ELSE LET item == Head(items) IN
         IF ~item.has_base_url THEN RaisedIn(c)
         ELSE LET provider == ProviderConfig(item.name, item.base_url, item.api_key,
                                             item.models, item.headers)
              IN  AddProviders(
                      [c EXCEPT !.providers = DictSet(c.providers, item.name, provider),
                                !.mapping = AddModels(c.mapping, provider.models, item.name)],
                      Tail(items))

\* Config._load_providers_from_dict
load_providers_from_dict(c, providers_data) ==
    LET default_provider == providers_data.default_provider
        AfterLoop(added) ==
            IF added.raised THEN added
            ELSE IF TruthyStr(default_provider) /\ HasKey(added.c.providers, default_provider)
            THEN Return([added.c EXCEPT !.default_provider = default_provider], None)
            ELSE IF added.c.providers # <<>>
            THEN Return([added.c EXCEPT !.default_provider = added.c.providers[1].k], None)
            ELSE added
    IN  AfterLoop(AddProviders(
            load_service_config([c EXCEPT !.providers = <<>>, !.mapping = <<>>],
                                providers_data.service_config),
            providers_data.providers))

\* Config._load_legacy_config
load_legacy_config(c, legacy) ==
    LET provider == ProviderConfig("default", legacy.base_url, legacy.api_key,
                                   <<legacy.default_model>>, <<>>)
    IN  [c EXCEPT !.providers = DictSet(c.providers, "default", provider),
                  !.default_provider = "default",
                  !.mapping = DictSet(c.mapping, legacy.default_model, "default")]

\* what the environment holds: LLM_PROVIDERS_CONFIG and the configuration
\* file, each absent, not JSON, or a document; and the legacy variables
Absent   == [kind |-> "absent"]
Invalid  == [kind |-> "invalid"]
Document(data) == [kind |-> "document", data |-> data]

\* the part of load_providers_config that reads one document
LoadDocument(c, data) ==
    LET Loaded(r) == IF r.raised THEN r
                     ELSE Return([r.c EXCEPT !.config_loaded = TRUE], None)
    IN  Loaded(load_providers_from_dict(c, data))

\* load_providers_config without its first test: the configuration is read
\* again on every call
load_providers_config_Reload(c, e) ==
    IF e.providers_json.kind = "document" THEN LoadDocument(c, e.providers_json.data)
    ELSE IF e.config_file.kind = "document" THEN LoadDocument(c, e.config_file.data)
    ELSE Return([load_legacy_config(c, e.legacy) EXCEPT !.config_loaded = TRUE], None)

\* Config.load_providers_config
load_providers_config(c, e) ==
    IF c.config_loaded THEN Return(c, None)
    ELSE IF e.providers_json.kind = "document" THEN LoadDocument(c, e.providers_json.data)
    ELSE IF e.config_file.kind = "document" THEN LoadDocument(c, e.config_file.data)
    ELSE Return([load_legacy_config(c, e.legacy) EXCEPT !.config_loaded = TRUE], None)

\* if not cls._providers: cls.load_providers_config()
EnsureProviders(c, e) ==
    IF c.providers = <<>> THEN load_providers_config(c, e) ELSE Return(c, None)

\* Config.setup_logging: the configuration is loaded when it was not; the log
\* level is left out
setup_logging(c, e) ==
    IF ~c.config_loaded THEN load_providers_config(c, e) ELSE Return(c, None)

\* Config.get_provider
get_provider(c, e, provider_name) ==
    LET Lookup(r) ==
            IF r.raised THEN r
            ELSE IF TruthyStr(provider_name)
            THEN Return(r.c, Get(r.c.providers, provider_name, None))
            ELSE IF TruthyStr(r.c.default_provider)
            THEN Return(r.c, Get(r.c.providers, r.c.default_provider, None))
            ELSE Return(r.c, None)
    IN  Lookup(EnsureProviders(c, e))

\* Config.get_provider_for_model
get_provider_for_model(c, e, model_name) ==
    LET Lookup(r, provider_name) ==
            IF TruthyStr(provider_name)
            THEN Return(r.c, Get(r.c.providers, provider_name, None))
            ELSE get_provider(r.c, e, NoneStr)
        Loaded(r) == IF r.raised THEN r
                     ELSE Lookup(r, Get(r.c.mapping, model_name, NoneStr))
    IN  Loaded(EnsureProviders(c, e))

\* Config.get_all_providers: a copy of the dict
get_all_providers(c, e) ==
    LET Loaded(r) == IF r.raised THEN r ELSE Return(r.c, r.c.providers)
    IN  Loaded(EnsureProviders(c, e))

\* Config.get_all_models: list(set(models)), an order the code does not fix
get_all_models(c, e) ==
    LET Loaded(r) ==
            IF r.raised THEN r
            ELSE Return(r.c, UNION {{r.c.providers[i].v.models[j] :
                                        j \in DOMAIN r.c.providers[i].v.models} :
                                     i \in DOMAIN r.c.providers})
    IN  Loaded(EnsureProviders(c, e))

\* Config.validate_config: raises ValueError, or returns None
validate_config(c, e) ==
    LET Loaded(r) ==
            IF r.raised THEN r
            ELSE IF r.c.providers = <<>> THEN RaisedIn(r.c)
            ELSE IF r.c.REQUEST_TIMEOUT <= 0 THEN RaisedIn(r.c)
            ELSE IF r.c.MAX_RETRIES < 0 THEN RaisedIn(r.c)
            ELSE IF \E i \in DOMAIN r.c.providers : r.c.providers[i].v.base_url = <<>>
            THEN RaisedIn(r.c)
            ELSE Return(r.c, None)
    IN  Loaded(EnsureProviders(c, e))

\* Config.get_config_info
get_config_info(c, e) ==
    LET Info(models) ==
            IF models.raised THEN models
            ELSE Return(models.c,
                   [service_api_key  |-> IF TruthyStr(models.c.SERVICE_API_KEY)
                                         THEN Masked ELSE NoneStr,
                    request_timeout  |-> models.c.REQUEST_TIMEOUT,
                    max_retries      |-> models.c.MAX_RETRIES,
                    default_provider |-> models.c.default_provider,
                    providers        |-> [i \in DOMAIN models.c.providers |->
                                            [k |-> models.c.providers[i].k,
                                             v |-> to_dict(models.c.providers[i].v)]],
                    total_models     |-> Cardinality(models.value),
                    available_models |-> models.value])
        Loaded(r) == IF r.raised THEN r ELSE Info(get_all_models(r.c, e))
    IN  Loaded(EnsureProviders(c, e))

(***************************************************************************)
(* Inputs.                                                                 *)
(***************************************************************************)
LongName == Rep("n", 500)
LongText == Rep("x", 60)
\* a content longer than every budget
HugeText == Rep("x", 700)
\* the content of the messages with an unrecognised role, and of no other
SystemText == "sys"

MsgChoices ==
    {Msg("user", "", <<>>), Msg("user", "hi", <<>>), Msg("user", HugeText, <<>>),
     Msg("assistant", "", <<>>), Msg("assistant", "hi", <<>>),
     Msg("assistant", "", <<"f">>), Msg("assistant", "", <<"f", LongName>>),
     Msg("tool", "r", <<>>), Msg("tool", "", <<>>), Msg("tool", NoneContent, <<>>),
     Msg("system", SystemText, <<>>)}

Histories == SeqsUpTo(MsgChoices, MaxMsgs)

TimeTool ==
    [name |-> "get_current_time", description |-> "time",
     properties |-> <<[name |-> "timezone", type |-> "string", required |-> FALSE,
                       description |-> "tz"]>>]

PingTool == [name |-> "ping", description |-> "", properties |-> <<>>]

ToolLists == {<<>>, <<TimeTool>>, <<PingTool, TimeTool>>}

Budgets == {600, 700}

ToolResults == {"", "r", LongText}

\* what the backend may answer in the pipeline: a well-formed call, the same
\* after free text, a call with no name, a truncated call, and plain text
BackendSources ==
    {Bare(CallObj("a", <<[k |-> "a", v |-> JStr("a")]>>), 0),
     [obj |-> CallObj("a", <<>>), del |-> 0, pre |-> <<WORD>>, suf |-> <<>>],
     Bare(<<>>, 0),
     Bare(CallObj("a", <<>>), Len(Core(CallObj("a", <<>>)))),
     Bare(<<>>, 1)}

NoSource == Bare(<<>>, 0)

\* header names, a character a piece
Authorization == <<"A", "u", "t", "h", "o", "r", "i", "z", "a", "t", "i", "o", "n">>
XApiKey       == <<"X", "-", "A", "P", "I", "-", "K", "e", "y">>
XToken        == <<"x", "-", "t", "o", "k", "e", "n">>
Accept        == <<"A", "c", "c", "e", "p", "t">>

\* providers as a configuration document declares them
ProviderItem(name, has_base_url, base_url, api_key, models, headers) ==
    [name |-> name, has_base_url |-> has_base_url, base_url |-> base_url,
     api_key |-> api_key, models |-> models, headers |-> headers]

OpenAIItem ==
    ProviderItem("openai", TRUE, <<"https://o", SLASH>>, "sk-o", <<"gpt", "shared">>,
                 <<[k |-> Authorization, v |-> "Bearer t"]>>)

LocalItem ==
    ProviderItem("local", TRUE, <<"http://l">>, NoneStr, <<"llama", "shared">>,
                 <<[k |-> XApiKey, v |-> "s1"], [k |-> Accept, v |-> "json"],
                   [k |-> XToken, v |-> "s2"]>>)

\* a provider without "base_url"
BrokenItem == ProviderItem("broken", FALSE, <<>>, NoneStr, <<"b">>, <<>>)

\* a provider whose name is the empty string
NamelessItem == ProviderItem("", TRUE, <<"http://n">>, NoneStr, <<"mini">>, <<>>)

\* a provider whose base_url is "/"
RootItem == ProviderItem("root", TRUE, <<SLASH>>, "", <<>>, <<>>)

ConfigData(service_config, default_provider, providers) ==
    [service_config |-> service_config, default_provider |-> default_provider,
     providers |-> providers]

LegacyVariables ==
    [base_url |-> <<"http://localhost:8000">>, api_key |-> NoneStr,
     default_model |-> "default"]

Environment(providers_json, config_file) ==
    [providers_json |-> providers_json, config_file |-> config_file,
     legacy |-> LegacyVariables]

\* the token the service asks for in the configurations that set one
ServiceKey == "k1"

Environments ==
    {Environment(Document(ConfigData(<<[k |-> "service_api_key", v |-> ServiceKey],
                                       [k |-> "request_timeout", v |-> 10]>>,
                                     "local", <<OpenAIItem, LocalItem>>)), Absent),
     Environment(Invalid, Document(ConfigData(<<>>, "nowhere", <<LocalItem, OpenAIItem>>))),
     Environment(Document(ConfigData(<<>>, "openai", <<OpenAIItem, BrokenItem>>)), Absent),
     Environment(Document(ConfigData(<<[k |-> "service_api_key", v |-> ""]>>,
                                     NoneStr, <<>>)), Absent),
     Environment(Absent, Document(ConfigData(<<[k |-> "max_retries", v |-> 0]>>,
                                             NoneStr, <<RootItem>>))),
     Environment(Document(ConfigData(<<>>, "openai", <<OpenAIItem, NamelessItem>>)), Absent),
     Environment(Document(ConfigData(<<>>, NoneStr, <<NamelessItem, LocalItem>>)), Absent),
     Environment(Absent, Invalid)}

\* the names and the models the methods are asked about
ProviderNames == {"openai", "local", "default", "nowhere", ""}
ModelNames    == {"gpt", "llama", "shared", "mini", "default", "unknown", ""}
BearerTokens  == {NoneStr, ServiceKey, "k2"}

\* the class attributes at this moment
Current ==
    ConfigState(SERVICE_API_KEY, REQUEST_TIMEOUT, MAX_RETRIES, _providers,
                _default_provider, _model_provider_mapping, _config_loaded)

ConfigIs(c) ==
    /\ SERVICE_API_KEY = c.SERVICE_API_KEY
    /\ REQUEST_TIMEOUT = c.REQUEST_TIMEOUT
    /\ MAX_RETRIES = c.MAX_RETRIES
    /\ _providers = c.providers
    /\ _default_provider = c.default_provider
    /\ _model_provider_mapping = c.mapping
    /\ _config_loaded = c.config_loaded

SetConfig(c) ==
    /\ SERVICE_API_KEY' = c.SERVICE_API_KEY
    /\ REQUEST_TIMEOUT' = c.REQUEST_TIMEOUT
    /\ MAX_RETRIES' = c.MAX_RETRIES
    /\ _providers' = c.providers
    /\ _default_provider' = c.default_provider
    /\ _model_provider_mapping' = c.mapping
    /\ _config_loaded' = c.config_loaded

\* no method of Config has been called
NoCall == [op |-> "none", arg |-> NoneStr, raised |-> FALSE, value |-> None]

NoEndpoint == "none"

\* the pipeline, the parser and the trimmer taken alone: Config is not read
ConfigAside ==
    /\ ConfigIs(ClassAttributes)
    /\ env = Environment(Absent, Absent)
    /\ returned = NoCall
    /\ endpoint = NoEndpoint
    /\ credentials = NoneStr
    /\ inflight = <<>>
    /\ ContentAside
    /\ ServiceAside

\* the class attributes after main.py is imported with neither
\* LLM_PROVIDERS_CONFIG nor a configuration file: the legacy provider
LegacyImport == load_providers_config(ClassAttributes, Environment(Absent, Absent)).c

\* a body that names the model of the legacy provider
LegacyRequest ==
    [has_model |-> TRUE, model |-> LegacyVariables.default_model, has_messages |-> TRUE]

\* the LLMService() main.py makes then: a client for the one provider
ServiceMade ==
    /\ request = LegacyRequest
    /\ clients = {LegacyImport.providers[i].k : i \in DOMAIN LegacyImport.providers}
    /\ max_retries = LegacyImport.MAX_RETRIES
    /\ attempt = 0

\* the pipeline in a process that imported main.py in legacy mode
ConfigMade ==
    /\ ConfigIs(LegacyImport)
    /\ env = Environment(Absent, Absent)
    /\ returned = NoCall
    /\ endpoint = NoEndpoint
    /\ credentials = NoneStr
    /\ inflight = <<>>
    /\ ContentAside
    /\ ServiceMade

(***************************************************************************)
(* The request pipeline: main.py chat_completions.                         *)
(***************************************************************************)
Init ==
    /\ messages \in Histories
    /\ tools \in ToolLists
    /\ max_prompt_length \in Budgets
    /\ pc = "start"
    /\ branch = "none"
    /\ prompt = NoPrompt
    /\ llm_response = <<>>
    /\ response = NoResponse
    /\ tool_call_data = None
    /\ clean_content = <<>>
    /\ clean_twice = <<>>
    /\ tool_result = ""
    /\ trimmed_messages = <<>>
    /\ source = NoSource
    /\ log = <<>>
    /\ ConfigMade

\* llm_service.handle_unified_request(request), up to its call of call_llm
HandleUnifiedRequest ==
    /\ pc = "start"
    /\ LET h == handle_unified_request(messages, tools, max_prompt_length) IN
       /\ branch' = h.branch
       /\ prompt' = h.prompt
       /\ IF h.branch = "short_circuit"
          THEN /\ llm_response' = Sentinel
               /\ pc' = "format"
               /\ response' = response
          ELSE IF h.prompt.kind = "error"
          THEN /\ llm_response' = llm_response
               /\ pc' = "done"
               /\ response' = Raised
          ELSE /\ llm_response' = llm_response
               /\ pc' = "call_llm"
               /\ response' = response
    /\ log' = Append(log, "handle_unified_request")
    /\ UNCHANGED <<messages, tools, max_prompt_length, parseVars, trimVars, source,
                   cfgVars, apiVars>>

\* call_llm(prompt, model) up to its loop: the provider of the model and the
\* client of the provider; a ValueError when either is missing, which passes
\* through handle_unified_request to chat_completions, which answers HTTP 500
CallLlmEnter ==
    /\ pc = "call_llm"
    /\ LET Entered(provider) ==
               /\ SetConfig(provider.c)
               /\ IF provider.raised \/ provider.value = None
                  THEN /\ pc' = "done"
                       /\ response' = Raised
                       /\ log' = Append(log, "ValueError: no provider")
                  ELSE IF provider.value.name \notin clients
                  THEN /\ pc' = "done"
                       /\ response' = Raised
                       /\ log' = Append(log, "ValueError: no client")
                  ELSE /\ pc' = "post"
                       /\ response' = response
                       /\ log' = log
       IN  Entered(get_provider_for_model(Current, env, request.model))
    /\ attempt' = 0
    /\ UNCHANGED <<reqVars, llm_response, parseVars, trimVars, source, restVars>>

\* the backend's replies that are a non-empty text
Replies == {src \in BackendSources : TextOf(src) # <<>>}

\* a pass of the loop of call_llm: _call_openai_compatible posts the prompt
\* and gives a non-empty text, which call_llm returns
BackendReply ==
    /\ pc = "post"
    /\ attempt < max_retries
    /\ \E src \in Replies :
        /\ source' = src
        /\ llm_response' = TextOf(src)
    /\ attempt' = attempt + 1
    /\ pc' = "format"
    /\ log' = Append(log, "post")
    /\ UNCHANGED <<reqVars, response, parseVars, trimVars, cfgVars, restVars>>

\* a pass of the loop in which a falsy reply is returned all the same
BackendEmpty_Returned ==
    /\ pc = "post"
    /\ attempt < max_retries
    /\ attempt' = attempt + 1
    /\ pc' = "format"
    /\ log' = Append(log, "post")
    /\ UNCHANGED <<reqVars, llm_response, response, parseVars, trimVars, source,
                   cfgVars, restVars>>

\* a pass of the loop: _call_openai_compatible posts and gives None (an HTTP
\* error, no choices, a null content) or ""; unless it was the last pass,
\* call_llm awaits asyncio.sleep(1), and the event loop runs what else is ready
BackendEmpty ==
    /\ pc = "post"
    /\ attempt < max_retries
    /\ attempt' = attempt + 1
    /\ pc' = "post"
    /\ log' = Append(log, "post")
    /\ UNCHANGED <<reqVars, llm_response, response, parseVars, trimVars, source,
                   cfgVars, restVars>>

\* BackendFail with the exception swallowed: the handler goes on to format an
\* empty backend text
BackendFail_Swallowed ==
    /\ pc = "post"
    /\ attempt >= max_retries
    /\ pc' = "format"
    /\ log' = Append(log, "Exception")
    /\ UNCHANGED <<reqVars, llm_response, response, parseVars, trimVars, source,
                   cfgVars, apiVars>>

\* range(self.max_retries) is used up: call_llm raises Exception("LLM API
\* call failed"), which passes through handle_unified_request to
\* chat_completions, which answers HTTP 500
BackendFail ==
    /\ pc = "post"
    /\ attempt >= max_retries
    /\ response' = Raised
    /\ pc' = "done"
    /\ log' = Append(log, "Exception")
    /\ UNCHANGED <<reqVars, llm_response, parseVars, trimVars, source,
                   cfgVars, apiVars>>

\* response_formatter.format_unified_response(request, llm_response)
FormatUnifiedResponse ==
    /\ pc = "format"
    /\ tool_call_data' = parse_tool_call(llm_response)
    /\ clean_content' = extract_clean_response(llm_response)
    /\ response' = format_unified_response(llm_response, TRUE)
    /\ pc' = "done"
    /\ log' = Append(log, "format_unified_response")
    /\ UNCHANGED <<reqVars, llm_response, clean_twice, trimVars, source,
                   cfgVars, apiVars>>

Next ==
    \/ HandleUnifiedRequest \/ CallLlmEnter \/ BackendReply \/ BackendEmpty
    \/ BackendFail
    \/ FormatUnifiedResponse

Spec == Init /\ [][Next]_vars

(***************************************************************************)
(* The parser and the assembler on every generated backend text.           *)
(***************************************************************************)
InitParser ==
    /\ messages = <<>>
    /\ tools = <<>>
    /\ max_prompt_length = MAX_PROMPT_LENGTH
    /\ pc = "format"
    /\ branch = "none"
    /\ prompt = NoPrompt
    /\ source \in Sources
    /\ llm_response = TextOf(source)
    /\ response = NoResponse
    /\ tool_call_data = None
    /\ clean_content = <<>>
    /\ clean_twice = <<>>
    /\ tool_result = ""
    /\ trimmed_messages = <<>>
    /\ log = <<>>
    /\ ConfigAside

\* extract_clean_response applied to its own result
StripAgain ==
    /\ pc = "done"
    /\ clean_twice' = extract_clean_response(clean_content)
    /\ pc' = "stripped_twice"
    /\ UNCHANGED <<reqVars, llm_response, response, tool_call_data, clean_content,
                   trimVars, source, log,
                   cfgVars, apiVars>>

NextParser == FormatUnifiedResponse \/ StripAgain

SpecParser == InitParser /\ [][NextParser]_vars

(***************************************************************************)
(* The trimmer and the prompt builder on every generated history.          *)
(***************************************************************************)
InitTrim ==
    /\ messages \in Histories
    /\ tools \in ToolLists
    /\ max_prompt_length \in Budgets
    /\ tool_result \in ToolResults
    /\ pc = "trim"
    /\ branch = "none"
    /\ prompt = NoPrompt
    /\ llm_response = <<>>
    /\ response = NoResponse
    /\ tool_call_data = None
    /\ clean_content = <<>>
    /\ clean_twice = <<>>
    /\ trimmed_messages = <<>>
    /\ source = NoSource
    /\ log = <<>>
    /\ ConfigAside

\* _trim_messages_to_fit(messages, tools, tool_result)
TrimMessagesToFit ==
    /\ pc = "trim"
    /\ trimmed_messages' = trim_messages_to_fit(messages, tools, tool_result, max_prompt_length)
    /\ pc' = "trimmed"
    /\ UNCHANGED <<reqVars, llm_response, response, parseVars, tool_result, source, log,
                   cfgVars, apiVars>>

\* build_unified_tool_prompt(messages, tools, tool_result)
BuildUnifiedToolPrompt ==
    /\ pc = "trim"
    /\ trimmed_messages' = trim_messages_to_fit(messages, tools, tool_result, max_prompt_length)
    /\ prompt' = build_unified_tool_prompt(messages, tools, tool_result, max_prompt_length)
    /\ pc' = "built"
    /\ UNCHANGED <<messages, tools, max_prompt_length, branch, llm_response, response,
                   parseVars, tool_result, source, log,
                   cfgVars, apiVars>>

NextTrim == TrimMessagesToFit \/ BuildUnifiedToolPrompt

SpecTrim == InitTrim /\ [][NextTrim]_vars


(***************************************************************************)
(* _trim_messages_to_fit statement by statement: the tests before the      *)
(* loop, then one action for each pass of the while loop.                  *)
(***************************************************************************)
\* if not messages / if current_length <= self.max_prompt_length: return;
\* else trimmed_messages = messages[:]
TrimEnter ==
    /\ pc = "trim"
    /\ trimmed_messages' = messages
    /\ pc' = IF messages = <<>>
                \/ calculate_prompt_length(messages, tools, tool_result) <= max_prompt_length
             THEN "trimmed" ELSE "loop"
    /\ UNCHANGED <<reqVars, llm_response, response, parseVars, tool_result, source, log,
                   cfgVars, apiVars>>

\* a pass of the loop that does not test the new length: no break
TrimPass_NoBreak ==
    /\ pc = "loop"
    /\ Len(trimmed_messages) > 1
    /\ trimmed_messages' = Tail(trimmed_messages)
    /\ pc' = "loop"
    /\ UNCHANGED <<reqVars, llm_response, response, parseVars, tool_result, source, log,
                   cfgVars, apiVars>>

\* a pass of the loop: the oldest message is dropped, and the loop is left
\* when the new length fits
TrimPass ==
    /\ pc = "loop"
    /\ Len(trimmed_messages) > 1
    /\ trimmed_messages' = Tail(trimmed_messages)
    /\ pc' = IF calculate_prompt_length(Tail(trimmed_messages), tools, tool_result)
                <= max_prompt_length
             THEN "trimmed" ELSE "loop"
    /\ UNCHANGED <<reqVars, llm_response, response, parseVars, tool_result, source, log,
                   cfgVars, apiVars>>

\* while len(trimmed_messages) > 1 is false: return trimmed_messages
TrimLeave ==
    /\ pc = "loop"
    /\ Len(trimmed_messages) <= 1
    /\ pc' = "trimmed"
    /\ UNCHANGED <<reqVars, llm_response, response, parseVars, trimVars, source, log,
                   cfgVars, apiVars>>

NextTrimLoop == TrimEnter \/ TrimPass \/ TrimLeave

SpecTrimLoop == InitTrim /\ [][NextTrimLoop]_vars


(***************************************************************************)
(* The service: the methods of Config called at any moment, the            *)
(* environment changing under it, LLMService() made when main.py is        *)
(* imported, and the two authenticated routes of main.py.  Of              *)
(* service_config, LOG_LEVEL and MAX_PROMPT_LENGTH are left out.           *)
(***************************************************************************)
Unauthorized == [kind |-> "unauthorized", content |-> <<>>, tool_calls |-> <<>>,
                 finish_reason |-> ""]

\* the answer of list_models: the models of the default provider, and its name
ModelList(provider) ==
    [kind |-> "models", content |-> provider.models, tool_calls |-> <<>>,
     finish_reason |-> provider.name]

\* the answer of validation_exception_handler: HTTP 422
Unprocessable == [kind |-> "unprocessable", content |-> <<>>, tool_calls |-> <<>>,
                  finish_reason |-> ""]

ChatEndpoint   == "/v1/chat/completions"
ModelsEndpoint == "/v1/models"

\* what the service is asked in this specification
ApiHistories ==
    {<<Msg("user", "hi", <<>>)>>,
     <<Msg("user", "hi", <<>>), Msg("assistant", "", <<"f">>), Msg("tool", "r", <<>>)>>}
ApiToolLists == {<<>>, <<PingTool>>}

\* request bodies: complete, without "model", without "messages"
ApiBodies ==
    {[has_model |-> TRUE, model |-> "gpt", has_messages |-> TRUE],
     [has_model |-> FALSE, model |-> "", has_messages |-> TRUE],
     [has_model |-> TRUE, model |-> "gpt", has_messages |-> FALSE]}

\* verify_api_key accepting any token that is present
verify_api_key_AnyToken(key, token) ==
    IF ~TruthyStr(key) THEN "ok"
    ELSE IF token = NoneStr THEN "missing"
    ELSE "ok"

\* verify_api_key after its load_providers_config: "ok" for True, else the 401 raised
verify_api_key(key, token) ==
    IF ~TruthyStr(key) THEN "ok"
    ELSE IF token = NoneStr THEN "missing"
    ELSE IF token # key THEN "invalid"
    ELSE "ok"

RequestAtRest ==
    /\ messages = <<>>
    /\ tools = <<>>
    /\ max_prompt_length = MAX_PROMPT_LENGTH
    /\ branch = "none"
    /\ prompt = NoPrompt
    /\ llm_response = <<>>
    /\ response = NoResponse
    /\ tool_call_data = None
    /\ clean_content = <<>>
    /\ clean_twice = <<>>
    /\ tool_result = ""
    /\ trimmed_messages = <<>>
    /\ source = NoSource
    /\ log = <<>>
    /\ endpoint = NoEndpoint
    /\ credentials = NoneStr

InitApi ==
    /\ pc = "import"
    /\ RequestAtRest
    /\ ConfigIs(ClassAttributes)
    /\ env \in Environments
    /\ returned = NoCall
    /\ inflight = <<>>
    /\ ContentAside
    /\ ServiceAside

requestVars == <<reqVars, llm_response, response, parseVars, trimVars, source, log,
                 endpoint, credentials>>

\* a method of Config returns r: the class attributes are as it left them
Called(op, arg, r) ==
    /\ SetConfig(r.c)
    /\ returned' = [op |-> op, arg |-> arg, raised |-> r.raised, value |-> r.value]
    /\ UNCHANGED <<pc, env, requestVars, sideVars>>

SetupLogging ==
    /\ pc \in {"import", "idle"}
    /\ Called("setup_logging", NoneStr, setup_logging(Current, env))

LoadProvidersConfig ==
    /\ pc \in {"import", "idle"}
    /\ Called("load_providers_config", NoneStr, load_providers_config(Current, env))

GetProvider ==
    /\ pc \in {"import", "idle"}
    /\ \E provider_name \in ProviderNames \cup {NoneStr} :
        Called("get_provider", provider_name, get_provider(Current, env, provider_name))

GetProviderForModel ==
    /\ pc \in {"import", "idle"}
    /\ \E model_name \in ModelNames :
        Called("get_provider_for_model", model_name,
               get_provider_for_model(Current, env, model_name))

GetAllProviders ==
    /\ pc \in {"import", "idle"}
    /\ Called("get_all_providers", NoneStr, get_all_providers(Current, env))

GetAllModels ==
    /\ pc \in {"import", "idle"}
    /\ Called("get_all_models", NoneStr, get_all_models(Current, env))

ValidateConfig ==
    /\ pc \in {"import", "idle"}
    /\ Called("validate_config", NoneStr, validate_config(Current, env))

GetConfigInfo ==
    /\ pc \in {"import", "idle"}
    /\ Called("get_config_info", NoneStr, get_config_info(Current, env))

\* the variables no step of the service touches
callAside == <<reqVars, parseVars, trimVars, env, endpoint, credentials, inflight,
               content_value, ensured>>

\* LLMService.__init__: setup_logging, validate_config, max_retries, one
\* client a provider
LLMServiceInit ==
    /\ pc = "import"
    /\ LET Made(r, providers) ==
               /\ SetConfig(providers.c)
               /\ IF r.raised \/ providers.raised
                  THEN /\ pc' = "failed"
                       /\ UNCHANGED <<clients, max_retries>>
                  ELSE /\ pc' = "idle"
                       /\ max_retries' = providers.c.MAX_RETRIES
                       /\ clients' = {providers.value[i].k : i \in DOMAIN providers.value}
           Validated(r) == Made(r, IF r.raised THEN r ELSE get_all_providers(r.c, env))
           Logging(r) == Validated(IF r.raised THEN r ELSE validate_config(r.c, env))
       IN  Logging(setup_logging(Current, env))
    /\ returned' = NoCall
    /\ UNCHANGED <<callAside, llm_response, response, source, log, request, attempt>>

\* the environment variables or the configuration file change
EnvChange ==
    /\ env' \in Environments \ {env}
    /\ returned' = NoCall
    /\ UNCHANGED <<pc, cfgVars, requestVars, sideVars>>

\* a request arrives; the module has been imported, so Config is loaded and
\* LLMService() has validated it and made its clients
ReceiveRequest ==
    /\ pc = "idle"
    /\ endpoint' \in {ChatEndpoint, ModelsEndpoint}
    /\ credentials' \in BearerTokens
    /\ IF endpoint' = ChatEndpoint
       THEN /\ request' \in ApiBodies
            /\ IF request'.has_messages
               THEN messages' \in ApiHistories \cup {<<>>}
               ELSE messages' = <<>>
            /\ tools' \in ApiToolLists
       ELSE UNCHANGED <<messages, tools, request>>
    /\ pc' = "auth"
    /\ returned' = NoCall
    /\ UNCHANGED <<max_prompt_length, branch, prompt, llm_response, response, parseVars,
                   trimVars, source, log, cfgVars, env, asideVars>>

\* the dependency verify_api_key of both routes
VerifyApiKey ==
    /\ pc = "auth"
    /\ LET Verdict(r, verdict) ==
               /\ SetConfig(r.c)
               /\ IF verdict = "ok"
                  THEN /\ pc' = IF endpoint = ChatEndpoint THEN "validate" ELSE "list_models"
                       /\ response' = response
                  ELSE /\ pc' = "done"
                       /\ response' = Unauthorized
           Loaded(r) == Verdict(r, verify_api_key(r.c.SERVICE_API_KEY, credentials))
       IN  Loaded(load_providers_config(Current, env))
    /\ UNCHANGED <<reqVars, llm_response, parseVars, trimVars, source, log, apiVars>>

\* the body is validated against ChatCompletionRequest: model and messages
\* are required; a body that fails is answered by validation_exception_handler
ValidateRequest ==
    /\ pc = "validate"
    /\ IF request.has_model /\ request.has_messages
       THEN pc' = "start" /\ response' = response
       ELSE pc' = "done" /\ response' = Unprocessable
    /\ UNCHANGED <<reqVars, llm_response, parseVars, trimVars, source, log, cfgVars,
                   apiVars>>

\* list_models
ListModels ==
    /\ pc = "list_models"
    /\ LET Listed(default_provider) ==
               /\ SetConfig(default_provider.c)
               /\ response' = IF default_provider.raised \/ default_provider.value = None
                              THEN Raised
                              ELSE ModelList(default_provider.value)
           Loaded(r) == Listed(get_provider(r.c, env, NoneStr))
       IN  Loaded(load_providers_config(Current, env))
    /\ pc' = "done"
    /\ log' = Append(log, "list_models")
    /\ UNCHANGED <<reqVars, llm_response, parseVars, trimVars, source, apiVars>>

\* the response is sent; the handler's variables are no more
RequestDone ==
    /\ pc = "done"
    /\ pc' = "idle"
    /\ messages' = <<>>
    /\ tools' = <<>>
    /\ max_prompt_length' = MAX_PROMPT_LENGTH
    /\ branch' = "none"
    /\ prompt' = NoPrompt
    /\ llm_response' = <<>>
    /\ response' = NoResponse
    /\ tool_call_data' = None
    /\ clean_content' = <<>>
    /\ clean_twice' = <<>>
    /\ tool_result' = ""
    /\ trimmed_messages' = <<>>
    /\ source' = NoSource
    /\ log' = <<>>
    /\ endpoint' = NoEndpoint
    /\ credentials' = NoneStr
    /\ request' = NoRequest
    /\ attempt' = 0
    /\ UNCHANGED <<cfgVars, env, returned, inflight, content_value, ensured, clients,
                   max_retries>>

NextApi ==
    \/ SetupLogging \/ LoadProvidersConfig \/ GetProvider \/ GetProviderForModel
    \/ GetAllProviders
    \/ GetAllModels \/ ValidateConfig \/ GetConfigInfo \/ EnvChange
    \/ LLMServiceInit
    \/ ReceiveRequest \/ VerifyApiKey \/ ValidateRequest \/ ListModels
    \/ HandleUnifiedRequest \/ CallLlmEnter \/ BackendReply \/ BackendEmpty
    \/ BackendFail
    \/ FormatUnifiedResponse \/ RequestDone

SpecApi == InitApi /\ [][NextApi]_vars


(***************************************************************************)
(* Two requests handled at the same time.  Each call of chat_completions   *)
(* has its own locals (request, tool_result, trimmed_messages, prompt,     *)
(* llm_response, tool_call_data, clean_content, response); the services    *)
(* are shared, and of their fields the steps read max_prompt_length.  The  *)
(* steps of a request are taken one by one, those of the other request     *)
(* in between in any way.                                                  *)
(***************************************************************************)
\* the rest of format_unified_response, after tool_call_data and clean_content
assemble(data, clean) ==
    IF data # None
    THEN IF ToolCallValid(data.tool_name)
         THEN Completion(<<>>,
                         <<[name |-> data.tool_name.s,
                            arguments |-> json_dumps(data.arguments)]>>,
                         "tool_calls")
         ELSE Raised
    ELSE Completion(clean, <<>>, "stop")

\* the locals of a call of chat_completions that has not taken a step
Arrived(msgs, tls) ==
    [pc |-> "classify", messages |-> msgs, tools |-> tls, branch |-> "none",
     tool_result |-> "", trimmed_messages |-> <<>>, prompt |-> NoPrompt,
     attempt |-> 0, source |-> NoSource, failed |-> FALSE, llm_response |-> <<>>,
     tool_call_data |-> None, clean_content |-> <<>>, response |-> NoResponse]

ConcurrentHistories ==
    {<<Msg("user", "hi", <<>>)>>,
     <<Msg("user", HugeText, <<>>), Msg("user", "hi", <<>>)>>,
     <<Msg("user", HugeText, <<>>), Msg("assistant", "", <<"f">>), Msg("tool", "r", <<>>)>>,
     <<Msg("assistant", "", <<"f">>), Msg("tool", NoneContent, <<>>)>>}

ConcurrentSources ==
    {Bare(CallObj("a", <<[k |-> "a", v |-> JStr("a")]>>), 0), Bare(<<>>, 1)}

InitConcurrent ==
    /\ inflight \in [{1, 2} -> {Arrived(msgs, tls) : msgs \in ConcurrentHistories,
                                                     tls \in ApiToolLists}]
    /\ max_prompt_length \in Budgets
    /\ pc = "idle"
    /\ messages = <<>>
    /\ tools = <<>>
    /\ branch = "none"
    /\ prompt = NoPrompt
    /\ llm_response = <<>>
    /\ response = NoResponse
    /\ tool_call_data = None
    /\ clean_content = <<>>
    /\ clean_twice = <<>>
    /\ tool_result = ""
    /\ trimmed_messages = <<>>
    /\ source = NoSource
    /\ log = <<>>
    /\ ConfigIs(LegacyImport)
    /\ env = Environment(Absent, Absent)
    /\ returned = NoCall
    /\ endpoint = NoEndpoint
    /\ credentials = NoneStr
    /\ ContentAside
    /\ ServiceMade

sharedVars == <<reqVars, pc, llm_response, response, parseVars, trimVars, source, log,
                cfgVars, env, returned, endpoint, credentials, content_value, ensured,
                request, svcVars>>

\* handle_unified_request: is_tool_result_request, extract_tool_result,
\* should_use_tools
Classify(i) ==
    /\ inflight[i].pc = "classify"
    /\ LET req == inflight[i]
           r   == extract_tool_result(req.messages)
       IN  inflight' = [inflight EXCEPT ![i] =
              IF is_tool_result_request(req.messages)
              THEN IF ~r.found
                   THEN [req EXCEPT !.branch = "short_circuit", !.llm_response = Sentinel,
                                    !.pc = "parse"]
                   ELSE [req EXCEPT !.branch = "tool_result", !.tool_result = r.content,
                                    !.pc = "trim"]
              ELSE IF should_use_tools(req.tools)
              THEN [req EXCEPT !.branch = "tool_call", !.pc = "trim"]
              ELSE [req EXCEPT !.branch = "regular", !.pc = "compile"]]
    /\ UNCHANGED sharedVars

\* build_unified_tool_prompt: _trim_messages_to_fit
Trim(i) ==
    /\ inflight[i].pc = "trim"
    /\ LET req == inflight[i] IN
       inflight' = [inflight EXCEPT ![i] =
          [req EXCEPT !.trimmed_messages =
                          trim_messages_to_fit(req.messages, req.tools, req.tool_result,
                                               max_prompt_length),
                      !.pc = "compile"]]
    /\ UNCHANGED sharedVars

\* Compile with the prompt kept in a field of the service, which every request
\* in flight reads
Compile_Shared(i) ==
    /\ inflight[i].pc = "compile"
    /\ LET req == inflight[i]
           compiled == IF req.branch = "regular" THEN regular_prompt(req.messages)
                       ELSE render_unified_prompt(req.trimmed_messages, req.tools,
                                                  req.tool_result)
       IN  inflight' = [j \in DOMAIN inflight |->
              IF j # i THEN [inflight[j] EXCEPT !.prompt = compiled]
              ELSE IF compiled.kind = "error"
              THEN [req EXCEPT !.prompt = compiled, !.response = Raised, !.pc = "done"]
              ELSE [req EXCEPT !.prompt = compiled, !.pc = "call_llm"]]
    /\ UNCHANGED sharedVars

\* the prompt is compiled: the rest of build_unified_tool_prompt, or the loop
\* of the regular branch
Compile(i) ==
    /\ inflight[i].pc = "compile"
    /\ LET req == inflight[i]
           compiled == IF req.branch = "regular" THEN regular_prompt(req.messages)
                       ELSE render_unified_prompt(req.trimmed_messages, req.tools,
                                                  req.tool_result)
       IN  inflight' = [inflight EXCEPT ![i] =
              IF compiled.kind = "error"
              THEN [req EXCEPT !.prompt = compiled, !.response = Raised, !.pc = "done"]
              ELSE [req EXCEPT !.prompt = compiled, !.pc = "call_llm"]]
    /\ UNCHANGED sharedVars

\* call_llm up to its loop: the provider of the model and its client are
\* looked up in the tables and the clients every request shares
CallLlmLookup(i) ==
    /\ inflight[i].pc = "call_llm"
    /\ LET Entered(provider) ==
               /\ SetConfig(provider.c)
               /\ inflight' = [inflight EXCEPT ![i] =
                     IF provider.raised \/ provider.value = None
                        \/ provider.value.name \notin clients
                     THEN [inflight[i] EXCEPT !.failed = TRUE, !.response = Raised,
                                              !.pc = "done"]
                     ELSE [inflight[i] EXCEPT !.attempt = 0, !.pc = "post"]]
       IN  Entered(get_provider_for_model(Current, env, request.model))
    /\ UNCHANGED <<reqVars, pc, llm_response, response, parseVars, trimVars, source, log,
                   env, returned, endpoint, credentials, content_value, ensured,
                   request, svcVars>>

\* a pass of the loop of call_llm gets a text, which call_llm returns
CallLlm(i) ==
    /\ inflight[i].pc = "post"
    /\ inflight[i].attempt < max_retries
    /\ \E src \in ConcurrentSources :
          inflight' = [inflight EXCEPT ![i] =
              [inflight[i] EXCEPT !.source = src, !.llm_response = TextOf(src),
                                  !.attempt = @ + 1, !.pc = "parse"]]
    /\ UNCHANGED sharedVars

\* a pass of the loop of call_llm gets a falsy reply; in asyncio.sleep(1) the
\* event loop runs the other request
CallLlmEmpty(i) ==
    /\ inflight[i].pc = "post"
    /\ inflight[i].attempt < max_retries
    /\ inflight' = [inflight EXCEPT ![i] = [inflight[i] EXCEPT !.attempt = @ + 1]]
    /\ UNCHANGED sharedVars

\* the passes of call_llm are used up: it raises
CallLlmFails(i) ==
    /\ inflight[i].pc = "post"
    /\ inflight[i].attempt >= max_retries
    /\ inflight' = [inflight EXCEPT ![i] =
          [inflight[i] EXCEPT !.failed = TRUE, !.response = Raised, !.pc = "done"]]
    /\ UNCHANGED sharedVars

\* format_unified_response: parse_tool_call and extract_clean_response
Parse(i) ==
    /\ inflight[i].pc = "parse"
    /\ LET req == inflight[i] IN
       inflight' = [inflight EXCEPT ![i] =
          [req EXCEPT !.tool_call_data = parse_tool_call(req.llm_response),
                      !.clean_content = extract_clean_response(req.llm_response),
                      !.pc = "assemble"]]
    /\ UNCHANGED sharedVars

\* format_unified_response: the response is built
Assemble(i) ==
    /\ inflight[i].pc = "assemble"
    /\ LET req == inflight[i] IN
       inflight' = [inflight EXCEPT ![i] =
          [req EXCEPT !.response = assemble(req.tool_call_data, req.clean_content),
                      !.pc = "done"]]
    /\ UNCHANGED sharedVars

NextConcurrent ==
    \/ \E i \in DOMAIN inflight : Classify(i)
    \/ \E i \in DOMAIN inflight : Trim(i)
    \/ \E i \in DOMAIN inflight : Compile(i)
    \/ \E i \in DOMAIN inflight : CallLlmLookup(i)
    \/ \E i \in DOMAIN inflight : CallLlm(i)
    \/ \E i \in DOMAIN inflight : CallLlmEmpty(i)
    \/ \E i \in DOMAIN inflight : CallLlmFails(i)
    \/ \E i \in DOMAIN inflight : Parse(i)
    \/ \E i \in DOMAIN inflight : Assemble(i)

SpecConcurrent == InitConcurrent /\ [][NextConcurrent]_vars


(***************************************************************************)
(* _ensure_string_content taken alone, on contents of every shape.         *)
(***************************************************************************)
TextEntry(v) == PyDict(<<[k |-> "type", v |-> PyStr(<<Lit("text")>>)], [k |-> "text", v |-> v]>>)

ContentItems ==
    {PyStr(<<>>), PyStr(<<Lit("a")>>), PyNone, PyInt(1),
     TextEntry(PyStr(<<Lit("b")>>)), TextEntry(PyNone), TextEntry(PyInt(1)),
     PyDict(<<[k |-> "type", v |-> PyStr(<<Lit("image")>>)]>>)}

Contents ==
    ContentItems
    \cup {PyList(xs) : xs \in SeqsUpTo(ContentItems, MaxParts)}
    \cup {PyList(<<PyList(<<PyStr(<<Lit("a")>>)>>)>>), TextEntry(PyList(<<PyStr(<<Lit("a")>>)>>))}

InitContent ==
    /\ content_value \in Contents
    /\ ensured = NotEnsured
    /\ pc = "idle"
    /\ RequestAtRest
    /\ ConfigIs(ClassAttributes)
    /\ env = Environment(Absent, Absent)
    /\ returned = NoCall
    /\ inflight = <<>>
    /\ ServiceAside

EnsureStringContent ==
    /\ pc = "idle"
    /\ ensured' = _ensure_string_content(content_value)
    /\ pc' = "done"
    /\ UNCHANGED <<requestVars, cfgVars, env, returned, inflight, content_value,
                   request, svcVars>>

NextContent == EnsureStringContent

SpecContent == InitContent /\ [][NextContent]_vars


(***************************************************************************)
(* The service object.  main.py makes LLMService() when it is imported;    *)
(* the loaders of Config may be called directly afterwards, as             *)
(* tests/test_api.py's setup_test_config does; call_llm is taken step by   *)
(* step: its lookup, then attempt by attempt.                              *)
(***************************************************************************)
MaxRetries == 2

\* the values of "max_retries" the documents set
RetrySettings == (0 - 1)..MaxRetries

ServiceDocuments ==
    {ConfigData(<<[k |-> "max_retries", v |-> n]>>, "local", <<OpenAIItem, LocalItem>>) :
        n \in RetrySettings}
    \cup {ConfigData(<<>>, NoneStr, <<>>),
          ConfigData(<<>>, "openai", <<OpenAIItem, BrokenItem>>),
          ConfigData(<<>>, NoneStr, <<LocalItem>>)}

ServiceEnvironments ==
    {Environment(Document(d), Absent) : d \in ServiceDocuments}
    \cup {Environment(Absent, Invalid)}

InitService ==
    /\ pc = "import"
    /\ RequestAtRest
    /\ ConfigIs(ClassAttributes)
    /\ env \in ServiceEnvironments
    /\ returned = NoCall
    /\ inflight = <<>>
    /\ ContentAside
    /\ ServiceAside

\* Config._load_providers_from_dict(data), called directly
LoadProvidersFromDict ==
    /\ pc \in {"import", "idle"}
    /\ \E data \in ServiceDocuments :
        LET Loaded(r) ==
                /\ SetConfig(r.c)
                /\ returned' = [op |-> "_load_providers_from_dict", arg |-> NoneStr,
                                raised |-> r.raised, value |-> None]
        IN  Loaded(load_providers_from_dict(Current, data))
    /\ UNCHANGED <<callAside, pc, llm_response, response, source, log, request, svcVars>>

\* Config._load_legacy_config(), called directly
LoadLegacyConfig ==
    /\ pc \in {"import", "idle"}
    /\ SetConfig(load_legacy_config(Current, env.legacy))
    /\ returned' = [op |-> "_load_legacy_config", arg |-> NoneStr, raised |-> FALSE,
                    value |-> None]
    /\ UNCHANGED <<callAside, pc, llm_response, response, source, log, request, svcVars>>

\* call_llm(prompt, model) is called on the service
CallArrives ==
    /\ pc = "idle"
    /\ \E model \in ModelNames :
        request' = [has_model |-> TRUE, model |-> model, has_messages |-> TRUE]
    /\ pc' = "call_llm"
    /\ log' = <<>>
    /\ attempt' = 0
    /\ returned' = NoCall
    /\ UNCHANGED <<callAside, cfgVars, llm_response, response, source, clients,
                   max_retries>>

\* the call is over; its locals are no more
CallOver ==
    /\ pc \in {"format", "done"}
    /\ pc' = "idle"
    /\ llm_response' = <<>>
    /\ response' = NoResponse
    /\ source' = NoSource
    /\ log' = <<>>
    /\ request' = NoRequest
    /\ attempt' = 0
    /\ UNCHANGED <<callAside, cfgVars, returned, clients, max_retries>>

NextService ==
    \/ LLMServiceInit \/ LoadProvidersFromDict \/ LoadLegacyConfig
    \/ CallArrives \/ CallLlmEnter \/ BackendReply \/ BackendEmpty \/ BackendFail
    \/ CallOver

SpecService == InitService /\ [][NextService]_vars

\* every awaited backend call comes back (the client has a timeout), so a
\* call_llm that has started takes its next step
SpecServiceLive ==
    SpecService /\ WF_vars(CallLlmEnter \/ BackendReply \/ BackendEmpty \/ BackendFail)


(***************************************************************************)
(* Properties.                                                             *)
(***************************************************************************)
Formatted == pc \in {"done", "stripped_twice"} /\ response # NoResponse

\* the match of the marker pattern in the backend text
TheMatch == re_search(llm_response, 1)

\* the JSON after the marker was decoded
Decoded == TheMatch.found /\ json_loads(SubSeq(llm_response, TheMatch.brace, TheMatch.end)).ok

\* C1: for every backend text the response has one of two shapes: a parsed call
\* gives content "", exactly one tool_calls entry and finish_reason "tool_calls",
\* no parsed call gives no tool_calls, the marker-stripped text as content and
\* finish_reason "stop"; finish_reason is "tool_calls" iff tool_calls is present.
C1_TwoShapes ==
    Formatted =>
        /\ response.kind = "completion"
        /\ IF tool_call_data # None
           THEN /\ response.content = <<>>
                /\ Len(response.tool_calls) = 1
                /\ response.finish_reason = "tool_calls"
           ELSE /\ response.tool_calls = <<>>
                /\ response.content = clean_content
                /\ response.finish_reason = "stop"
        /\ (response.finish_reason = "tool_calls") <=> (response.tool_calls # <<>>)

\* a tool-role message is met before any assistant message with tool_calls,
\* going from the newest message to the oldest
ToolMetFirst(msgs) ==
    \E i \in DOMAIN msgs :
        /\ msgs[i].role = "tool"
        /\ \A j \in (i + 1)..Len(msgs) :
              ~(msgs[j].role = "assistant" /\ msgs[j].tool_calls # <<>>)

ConversationState(b) ==
    IF b \in {"tool_result", "short_circuit"} THEN "ToolResultPending"
    ELSE IF b = "tool_call" THEN "ToolInvocationEligible"
    ELSE IF b = "regular" THEN "Plain"
    ELSE "Unresolved"

\* C2: is_tool_result_request is true exactly when a tool-role message is met
\* before any assistant message with tool_calls (newest to oldest); the request is
\* then ToolResultPending, otherwise ToolInvocationEligible with a tool schema
\* and Plain with none: always exactly one of the three.
C2_Classification ==
    pc # "start" =>
        /\ is_tool_result_request(messages) = ToolMetFirst(messages)
        /\ ConversationState(branch) =
              (IF ToolMetFirst(messages) THEN "ToolResultPending"
               ELSE IF tools # <<>> THEN "ToolInvocationEligible"
               ELSE "Plain")

\* a history whose newest message is not the tool message that decides it, and
\* which holds an assistant message with tool_calls
C2_Witness ==
    /\ pc = "call_llm"
    /\ branch = "tool_result"
    /\ messages[Len(messages)].role # "tool"
    /\ \E i \in DOMAIN messages :
          messages[i].role = "assistant" /\ messages[i].tool_calls # <<>>

Estimate(msgs) == calculate_prompt_length(msgs, tools, tool_result)

Trimmed == pc \in {"trimmed", "built"}

\* C3 as stated: the estimate of the trimmed history is within the budget
\* unless the history given has at most one message.
C3_BudgetUnlessShortInput ==
    Trimmed /\ Len(messages) > 1 => Estimate(trimmed_messages) <= max_prompt_length

\* C3, amended: the estimate of the trimmed history is within the budget
\* unless the trimmed history has at most one message.
C3_BudgetUnlessOneLeft ==
    Trimmed /\ Len(trimmed_messages) > 1 => Estimate(trimmed_messages) <= max_prompt_length

\* messages were evicted and more than one is left
C3_Witness ==
    /\ pc = "trimmed"
    /\ Len(trimmed_messages) > 1
    /\ Len(trimmed_messages) < Len(messages)

\* C4: the rendered prompt is never longer than max_prompt_length, except when
\* one message is left that alone exceeds the budget: an estimate within the
\* budget implies a rendered prompt within the budget.
C4_RenderedWithinBudget ==
    /\ pc = "built"
    /\ prompt.kind = "unified"
    /\ ~(Len(trimmed_messages) = 1 /\ Estimate(trimmed_messages) > max_prompt_length)
    => PromptLen(prompt) <= max_prompt_length

\* C5: the trimmed history is a suffix of the history given (the newest
\* messages, in order, unaltered), keeps the final message of a non-empty
\* history, and is the history given when that is within the budget.
C5_Suffix ==
    Trimmed =>
        /\ \E k \in 0..Len(messages) :
              trimmed_messages = SubSeq(messages, k + 1, Len(messages))
        /\ messages # <<>> =>
              /\ trimmed_messages # <<>>
              /\ trimmed_messages[Len(trimmed_messages)] = messages[Len(messages)]
        /\ Estimate(messages) <= max_prompt_length => trimmed_messages = messages

\* some messages were evicted, some were kept
C5_Witness ==
    /\ pc = "trimmed"
    /\ trimmed_messages # <<>>
    /\ Len(trimmed_messages) + 2 <= Len(messages)

\* the backend text is the rendering of a structured call, as the prompt asks
IsRenderedCall ==
    /\ source.del = 0
    /\ source.pre = <<>>
    /\ source.suf = <<>>
    /\ Len(source.obj) = 2
    /\ source.obj[1].k = "tool_name"
    /\ source.obj[1].v.t = "str"
    /\ source.obj[2].k = "arguments"
    /\ source.obj[2].v.t = "obj"
    /\ llm_response = TextOf(source)

\* C6: parse_tool_call of 'TOOL_CALL: {"tool_name": name, "arguments": args}'
\* returns the name and the arguments of the call that was rendered.
C6_RoundTrip ==
    Formatted /\ IsRenderedCall =>
        /\ tool_call_data # None
        /\ tool_call_data.tool_name = source.obj[1].v
        /\ tool_call_data.arguments = source.obj[2].v

\* a call whose arguments hold a nested, non-empty object
C6_Witness ==
    /\ Formatted
    /\ IsRenderedCall
    /\ \E i \in DOMAIN source.obj[2].v.o :
          /\ source.obj[2].v.o[i].v.t = "obj"
          /\ source.obj[2].v.o[i].v.o # <<>>

\* C7: stripping is idempotent, and the clean text holds no span the marker
\* pattern matches.
C7_Idempotent ==
    pc = "stripped_twice" =>
        /\ clean_twice = clean_content
        /\ ~re_search(clean_content, 1).found

\* a span was removed from inside free text
C7_Witness ==
    /\ pc = "stripped_twice"
    /\ TheMatch.found
    /\ clean_content # <<>>
    /\ Len(clean_content) < Len(llm_response)

\* the text holds the marker, and no call was decoded from it
MalformedCall == (\E i \in 1..Len(llm_response) : IsMarkerAt(llm_response, i)) /\ ~Decoded

\* C8 as stated: when the JSON after the marker fails to decode, the response is
\* a plain "stop" message whose content is the backend text, unmodified.
C8_PassedThroughUnmodified ==
    Formatted /\ MalformedCall => response = Completion(llm_response, <<>>, "stop")

\* the backend text without the span the pattern matched, whitespace trimmed
Residual ==
    strip(IF TheMatch.found
          THEN SubSeq(llm_response, 1, TheMatch.start - 1)
               \o SubSeq(llm_response, TheMatch.end + 1, Len(llm_response))
          ELSE llm_response)

\* C8, amended: when the JSON after the marker fails to decode, the response is
\* a plain "stop" message whose content is the backend text without the span
\* the marker pattern matched (if it matched), trimmed of whitespace.
C8_MarkerSpanRemoved ==
    Formatted /\ MalformedCall => response = Completion(Residual, <<>>, "stop")

\* the pattern matched, the JSON did not decode, and text is left around the span
C8_Witness ==
    /\ Formatted
    /\ MalformedCall
    /\ TheMatch.found
    /\ response.content # <<>>
    /\ response.content # llm_response

\* C9: for every backend text, parsing and assembly complete and the caller
\* receives a completion, never an error.
C9_NeverFails == Formatted => response.kind = "completion"

\* C10: a Plain request (no tool schemas, no tool-role message) is answered with
\* finish_reason "stop" and no tool_calls, whatever text the backend returns.
C10_PlainStops ==
    /\ pc = "done"
    /\ messages # <<>>
    /\ tools = <<>>
    /\ \A i \in DOMAIN messages : messages[i].role # "tool"
    /\ response.kind = "completion"
    => response.finish_reason = "stop" /\ response.tool_calls = <<>>

\* the request is ToolResultPending and extract_tool_result returns None
NoToolResult ==
    /\ is_tool_result_request(messages)
    /\ ~extract_tool_result(messages).found

\* the backend was contacted for this request
Contacted == \E i \in DOMAIN log : log[i] = "post"

\* C11: when the request is ToolResultPending and no tool result can be
\* extracted, handle_unified_request returns the sentinel text, the backend is
\* not contacted, and the caller receives a plain "stop" message carrying the
\* sentinel.
C11_ShortCircuit ==
    pc # "start" /\ NoToolResult =>
        /\ pc \in {"format", "done"}
        /\ llm_response = Sentinel
        /\ ~Contacted
        /\ pc = "done" => response = Completion(Sentinel, <<>>, "stop")

\* the newest tool message has a null content, an older one has a content,
\* and the request was answered
C11_Witness ==
    /\ pc = "done"
    /\ NoToolResult
    /\ \E i \in DOMAIN messages : messages[i].role = "tool" /\ messages[i].content = "r"
    /\ response.kind = "completion"

\* a prompt was handed to call_llm, and by it to the backend
Handed == pc \in {"call_llm", "post"} \/ Contacted

\* the position of the most recent tool-role message
NewestTool == Max({i \in DOMAIN messages : messages[i].role = "tool"})

\* the messages the trimmer kept for the prompt that was handed over
Kept == trim_messages_to_fit(messages, tools, prompt.tool_result, max_prompt_length)

\* C12: whenever the request is ToolResultPending and the backend is
\* contacted, the prompt carries as its tool result the whole content of the
\* most recent tool-role message, however many messages the trimmer evicted.
C12_ToolResultVerbatim ==
    Handed /\ ToolMetFirst(messages) =>
        /\ prompt.kind = "unified"
        /\ prompt.tool_result = messages[NewestTool].content

\* the trimmer evicted the tool message itself, and an older tool message
\* has another content
C12_Witness ==
    /\ Contacted
    /\ ToolMetFirst(messages)
    /\ messages[NewestTool].content = "r"
    /\ NewestTool <= Len(messages) - Len(Kept)
    /\ \E i \in 1..(NewestTool - 1) :
          messages[i].role = "tool" /\ messages[i].content # "r"

\* the backend call of this request failed
Failed == \E i \in DOMAIN log : log[i] = "Exception"

\* C13: if the backend call fails, format_unified_response is never invoked
\* and no response is assembled; the caller receives one terminal error
\* (HTTP 500) in place of a completion.
C13_FailureIsTerminal ==
    Failed =>
        /\ pc = "done"
        /\ response = Raised
        /\ \A i \in DOMAIN log : log[i] # "format_unified_response"
        /\ tool_call_data = None
        /\ clean_content = <<>>

\* the call failed for a request whose prompt carried a tool result
C13_Witness ==
    /\ Failed
    /\ branch = "tool_result"
    /\ prompt.tool_result # ""

\* the estimate of the prompt of the full history, as the trimmer makes it
FullEstimate == calculate_prompt_length(messages, tools, prompt.tool_result)

\* the prompt of this request's state compiled from the messages msgs
CompiledFrom(msgs) ==
    IF branch = "regular" THEN regular_prompt(msgs)
    ELSE render_unified_prompt(msgs, tools, prompt.tool_result)

\* C14: in every conversation state, Plain included, when the full history
\* exceeds the budget (by the trimmer's estimate and as a rendered prompt) and
\* has more than one message, the trimmer runs before compilation: the prompt
\* handed to the backend is compiled from a proper suffix of the history,
\* without the oldest message at least.
C14_TrimmedInEveryState ==
    /\ Handed
    /\ Len(messages) > 1
    /\ FullEstimate > max_prompt_length
    /\ PromptLen(CompiledFrom(messages)) > max_prompt_length
    =>
        \E k \in 1..(Len(messages) - 1) :
            prompt = CompiledFrom(SubSeq(messages, k + 1, Len(messages)))

\* the text t is part of the prompt p: the text of a line or the latest message
InPrompt(t, p) ==
    \/ p.user_message = t
    \/ \E i \in DOMAIN p.history : p.history[i].text = t

\* C15: a message whose role is not user, assistant or tool is skipped: in
\* every conversation state and at every position of the history it adds no
\* text to the prompt handed to the backend, and the request does not fail on it.
C15_UnknownRoleSkipped ==
    pc # "start" /\ messages # <<>> =>
        /\ prompt.kind # "error"
        /\ ~InPrompt(SystemText, prompt)


\* the configured default provider: the provider _default_provider names,
\* nothing when none is set
DefaultProvider ==
    IF _default_provider # NoneStr THEN Get(_providers, _default_provider, None) ELSE None

Mapped(model_name) == HasKey(_model_provider_mapping, model_name)

Declares(provider, model_name) ==
    \E j \in DOMAIN provider.models : provider.models[j] = model_name

\* a call of op has returned (it has not raised)
Gave(op) == returned.op = op /\ ~returned.raised

\* a mapped model gives a provider of the table that declares it, an unmapped
\* one the default provider
ForModelResolved ==
    Gave("get_provider_for_model") =>
        IF Mapped(returned.arg)
        THEN /\ returned.value # None
             /\ Declares(returned.value, returned.arg)
             /\ returned.value = Get(_providers, returned.value.name, None)
        ELSE returned.value = DefaultProvider

\* C16: get_provider_for_model returns a provider that declares the model
\* when the model is mapped and the default provider otherwise;
\* get_provider(name) returns the provider of that name, or nothing when no
\* provider has that name; get_provider() returns the default provider.
C16_ProviderResolution ==
    /\ ForModelResolved
    /\ (Gave("get_provider") /\ returned.arg # NoneStr =>
            returned.value = Get(_providers, returned.arg, None))
    /\ (Gave("get_provider") /\ returned.arg = NoneStr =>
            returned.value = DefaultProvider)


\* a header that carries a credential: Authorization, or a name holding "key"
\* or "token"
CredentialBearing(k) ==
    \/ lower(k) = lower(Authorization)
    \/ Contains(lower(k), <<"k", "e", "y">>)
    \/ Contains(lower(k), <<"t", "o", "k", "e", "n">>)

\* the dict d shows the provider p with its secrets masked
ShownMasked(p, d) ==
    /\ d.name = p.name
    /\ d.base_url = p.base_url
    /\ d.models = p.models
    /\ (TruthyStr(p.api_key) => d.api_key = Masked)
    /\ DOMAIN d.headers = DOMAIN p.headers
    /\ \A i \in DOMAIN p.headers :
          /\ d.headers[i].k = p.headers[i].k
          /\ (CredentialBearing(p.headers[i].k) => d.headers[i].v = Masked)

\* C17: in what get_config_info returns, the to_dict of every provider shows
\* name, base_url and models unchanged, "***" for a set api_key and "***" for
\* the value of every credential-bearing header, Authorization among them.
C17_SecretsMasked ==
    Gave("get_config_info") =>
        \A i \in DOMAIN _providers :
            ShownMasked(_providers[i].v, returned.value.providers[i].v)


\* the dependency verify_api_key of the request in hand has run
PastAuth == pc \notin {"import", "failed", "idle", "auth"}

\* a key is configured and the request carries no token or another one
BadToken == TruthyStr(SERVICE_API_KEY) /\ credentials # SERVICE_API_KEY

\* C18: once verify_api_key has run, a request on either route that carries no
\* bearer token or a token other than the configured SERVICE_API_KEY is answered
\* 401 and no step of its handler, the pipeline or the backend has run; a request
\* with the matching token, and every request when no key is configured, is not
\* answered 401, and when it is done its handler has run, unless its body was
\* refused (422).
C18_OnlyTheKeyPasses ==
    PastAuth =>
        IF BadToken
        THEN pc = "done" /\ response = Unauthorized /\ log = <<>> /\ prompt = NoPrompt
        ELSE /\ response # Unauthorized
             /\ (pc = "done" /\ response # Unprocessable =>
                    log # <<>> /\ log[1] = IF endpoint = ChatEndpoint
                                           THEN "handle_unified_request"
                                           ELSE "list_models")

\* a chat request with the token "k2" was rejected where the key is "k1"
C18_Witness ==
    /\ pc = "done"
    /\ endpoint = ChatEndpoint
    /\ SERVICE_API_KEY = ServiceKey
    /\ credentials = "k2"
    /\ response = Unauthorized
    /\ log = <<>>


\* C19: once load_providers_config has completed (_config_loaded is set), no
\* step (a call of setup_logging, load_providers_config, get_provider, get_provider_for_model,
\* get_all_providers, get_all_models, validate_config or get_config_info, a
\* step of a handled request, a change of the environment) changes _providers,
\* _default_provider or _model_provider_mapping.
C19_LoadedOnce == [][_config_loaded => UNCHANGED tableVars]_vars

\* the configuration was loaded, the environment has changed since to one that
\* would load other tables, and a method of Config has been called after that
C19_Witness ==
    /\ _config_loaded
    /\ returned.op \in {"load_providers_config", "get_provider_for_model"}
    /\ ~returned.raised
    /\ load_providers_config_Reload(Current, env).c.providers # _providers


\* the place of a step in handle_unified_request and format_unified_response
StepRank(step) ==
    CASE step = "classify" -> 1
      [] step = "trim"     -> 2
      [] step = "compile"  -> 3
      [] step = "call_llm" -> 4
      [] step = "post"     -> 5
      [] step = "parse"    -> 6
      [] step = "assemble" -> 7
      [] step = "done"     -> 8

\* what the request gets when it is the only one: the branch and the prompt of
\* handle_unified_request, and the response to the same answer of the backend
AloneResponse(req) ==
    LET alone == handle_unified_request(req.messages, req.tools, max_prompt_length) IN
    IF alone.prompt.kind = "error" \/ req.failed THEN Raised
    ELSE format_unified_response(IF alone.branch = "short_circuit" THEN Sentinel
                                 ELSE TextOf(req.source), TRUE)

AsAlone(req) ==
    LET alone == handle_unified_request(req.messages, req.tools, max_prompt_length) IN
    /\ StepRank(req.pc) > StepRank("compile") =>
           req.branch = alone.branch /\ req.prompt = alone.prompt
    /\ req.pc = "done" => req.response = AloneResponse(req)

\* a request moves forward only, and has compiled the prompt it calls with
InOrder ==
    \A i \in DOMAIN inflight :
        inflight'[i].pc # inflight[i].pc =>
            /\ StepRank(inflight[i].pc) < StepRank(inflight'[i].pc)
            /\ inflight'[i].pc = "call_llm" => inflight[i].pc = "compile"
            /\ inflight'[i].pc = "post" => inflight[i].pc = "call_llm"
            /\ inflight'[i].pc = "compile" => inflight[i].pc \in {"classify", "trim"}
            /\ inflight'[i].pc = "assemble" => inflight[i].pc = "parse"

\* C20: whatever the steps of two requests are interleaved like, each request's
\* compiled prompt and assembled response are those it gets when it is handled
\* alone (with the same answer of the backend), and within a request the steps
\* classify, trim, compile, backend call, parse, assemble are taken in that order;
\* no step changes a field of the services or of Config.
C20_Independent ==
    /\ [](\A i \in DOMAIN inflight : AsAlone(inflight[i]))
    /\ [][InOrder]_vars
    /\ [][UNCHANGED <<max_prompt_length, cfgVars>>]_vars

\* the first request, of the tool-result kind and trimmed, has its answer parsed
\* while the second, a plain one, has compiled another prompt and waits for
\* the backend
C20_Witness ==
    /\ DOMAIN inflight = {1, 2}
    /\ inflight[1].pc = "assemble"
    /\ inflight[1].branch = "tool_result"
    /\ Len(inflight[1].trimmed_messages) < Len(inflight[1].messages)
    /\ inflight[2].pc = "post"
    /\ inflight[2].branch = "regular"
    /\ inflight[2].prompt # inflight[1].prompt


\* C21: _ensure_string_content never raises and returns a str, whatever the
\* content is; a str is returned unchanged; a list whose items are all str
\* gives them in order joined by line breaks.
C21_TotalString ==
    pc = "done" =>
        /\ ~ensured.raised
        /\ ensured.value.t = "str"
        /\ (content_value.t = "str" => ensured.value = content_value)
        /\ (content_value.t = "list" /\ (\A i \in DOMAIN content_value.items :
                                            content_value.items[i].t = "str")
                => ensured.value = PyStr(join(content_value.items)))


\* the body of the chat request in hand has been validated
PastValidation ==
    /\ endpoint = ChatEndpoint
    /\ pc \notin {"import", "failed", "idle", "auth", "validate"}
    /\ ~BadToken

\* C22: a chat request whose body has no model, no messages or an empty list
\* of messages is answered 422, and no step of the handler (classification,
\* prompt compilation, backend call) has run for it.
C22_EmptyRejected ==
    PastValidation /\ (~request.has_model \/ ~request.has_messages \/ messages = <<>>) =>
        response = Unprocessable /\ log = <<>> /\ prompt = NoPrompt


HasUser(msgs) == \E i \in DOMAIN msgs : msgs[i].role = "user"

\* the place of the most recent user-role message
LastUser(msgs) ==
    CHOOSE i \in DOMAIN msgs :
        msgs[i].role = "user" /\ \A j \in DOMAIN msgs : msgs[j].role = "user" => j <= i

\* the messages other than the one at place i
Without(msgs, i) == SubSeq(msgs, 1, i - 1) \o SubSeq(msgs, i + 1, Len(msgs))

\* C23: in the prompt build_unified_tool_prompt builds for a history that has
\* a user-role message, the latest-user-message section is the content of the
\* most recent user-role message, and the history section renders the other
\* retained messages only.
C23_LatestUserMessage ==
    pc = "built" /\ prompt.kind = "unified" /\ HasUser(trimmed_messages) =>
        LET u == LastUser(trimmed_messages) IN
        /\ prompt.user_message = ensure_string_content(trimmed_messages[u].content)
        /\ prompt.history = format_conversation_history(Without(trimmed_messages, u))

\* the line the history is to show for a message: an assistant message with
\* tool_calls names each call's tool and arguments
FullLineOf(m) ==
    IF m.role = "assistant" /\ m.tool_calls # <<>>
    THEN Line("assistant_calls", "",
              [i \in DOMAIN m.tool_calls |->
                  [tool_name |-> m.tool_calls[i].function.name,
                   tool_args |-> m.tool_calls[i].function.arguments]])
    ELSE Line(m.role, ensure_string_content(m.content), <<>>)

\* C24: the history section has one line for each retained message before the
\* last, in the order of the input, and the line of an assistant message with
\* tool_calls names the tool and the arguments of each call.
C24_HistoryLines ==
    pc = "built" /\ prompt.kind = "unified" =>
        /\ Len(prompt.history) = Len(trimmed_messages) - 1
        /\ \A i \in DOMAIN prompt.history : prompt.history[i] = FullLineOf(trimmed_messages[i])


\* how many messages have been dropped
Dropped == Len(messages) - Len(trimmed_messages)

\* what the loop has reached, and where it stops
TrimBounded ==
    pc \in {"loop", "trimmed"} =>
        /\ trimmed_messages = SubSeq(messages, Dropped + 1, Len(messages))
        /\ (messages # <<>> => Dropped <= Len(messages) - 1)
        /\ (Dropped >= 1 => Estimate(SubSeq(messages, Dropped, Len(messages)))
                                > max_prompt_length)
        /\ (pc = "trimmed" =>
               trimmed_messages = trim_messages_to_fit(messages, tools, tool_result,
                                                       max_prompt_length))

\* a pass drops one message and makes the estimate smaller
PassDecreases ==
    pc = "loop" /\ trimmed_messages' # trimmed_messages =>
        /\ Len(trimmed_messages') = Len(trimmed_messages) - 1
        /\ Estimate(trimmed_messages') < Estimate(trimmed_messages)

\* a step taken in the loop either drops a message or leaves the loop
PassProgresses ==
    pc = "loop" => pc' = "trimmed" \/ Len(trimmed_messages') < Len(trimmed_messages)

\* C25: each pass of the trimming loop drops the oldest message and lowers the
\* estimate; every step in the loop drops a message or leaves it, so that the
\* loop ends after at most len(H)-1 evictions; and when k >= 1 messages have
\* been dropped, the suffix with k-1 dropped has an estimate above the budget.
C25_TrimMinimalTerminates ==
    /\ []TrimBounded
    /\ [][PassDecreases]_vars
    /\ [][PassProgresses]_vars

\* two of three messages were dropped and the one left fits
C25_Witness ==
    /\ pc = "trimmed"
    /\ Len(messages) = 3
    /\ Dropped = 2
    /\ Estimate(trimmed_messages) <= max_prompt_length


\* the message at which the scan of is_tool_result_request returns True: a
\* tool message with no tool message and no assistant message with tool_calls
\* after it
Decides(i) ==
    /\ messages[i].role = "tool"
    /\ \A j \in (i + 1)..Len(messages) :
          /\ messages[j].role # "tool"
          /\ ~(messages[j].role = "assistant" /\ messages[j].tool_calls # <<>>)

\* C26: whenever is_tool_result_request is true, a tool-role message decided
\* it, extract_tool_result gives the content of that same message, and the
\* request is answered with the sentinel exactly when that content is null;
\* no other request is answered that way.
C26_ShortCircuitOnlyOnNull ==
    pc # "start" =>
        /\ is_tool_result_request(messages) =>
              \E i \in DOMAIN messages :
                 /\ Decides(i)
                 /\ extract_tool_result(messages) =
                       [found |-> messages[i].content # NoneContent,
                        content |-> ensure_string_content(messages[i].content)]
                 /\ (branch = "short_circuit") = (messages[i].content = NoneContent)
        /\ ~is_tool_result_request(messages) => branch # "short_circuit"

\* the deciding tool message has an empty content, an older tool message has
\* a null one, and the request went on to the backend
C26_Witness ==
    /\ pc = "call_llm"
    /\ branch = "tool_result"
    /\ \E i \in DOMAIN messages :
          /\ Decides(i)
          /\ messages[i].content = ""
          /\ \E j \in 1..(i - 1) :
                messages[j].role = "tool" /\ messages[j].content = NoneContent


\* the attempts a log records: the requests posted to the backend
ContactsIn(l) == Cardinality({i \in DOMAIN l : l[i] = "post"})
Contacts == ContactsIn(log)

\* call_llm raised because its attempts were used up
Exhausted ==
    pc = "done" /\ log # <<>> /\ log[Len(log)] = "Exception"

\* what holds while call_llm runs and when it is over
CallBounded ==
    pc \in {"call_llm", "post", "format", "done"} =>
        /\ Contacts <= max_retries
        /\ Contacts = attempt
        /\ (pc = "format" =>
               /\ llm_response # <<>>
               /\ log[Len(log)] = "post"
               /\ response = NoResponse)
        /\ (Exhausted => Contacts = max_retries /\ response = Raised)

\* a pass of the loop posts once; it returns the reply when it is not empty,
\* and counts a failed attempt otherwise
AttemptStep ==
    pc = "post" /\ pc' # "done" =>
        /\ log' = Append(log, "post")
        /\ attempt' = attempt + 1
        /\ IF llm_response' # <<>>
           THEN pc' = "format"
           ELSE pc' = "post" /\ response' = response

\* nothing is posted after call_llm returned or raised
OverStops == pc \in {"format", "done"} => pc' = "idle" /\ ContactsIn(log') = 0

\* C27: call_llm posts to the backend at most max_retries times a request; a
\* non-empty reply is returned at once and nothing is posted after it; an empty
\* or missing reply counts as a failed attempt; the failure is raised when all
\* max_retries attempts have failed; the text returned is never empty; and a
\* call_llm that has entered its loop returns or raises.
C27_BoundedRetries ==
    /\ []CallBounded
    /\ [][AttemptStep]_vars
    /\ [][OverStops]_vars
    /\ (pc \in {"call_llm", "post"} ~> pc \in {"format", "done"})

\* the reply of the last attempt allowed is returned, after a failed attempt
C27_Witness ==
    /\ pc = "format"
    /\ Contacts = max_retries
    /\ Contacts >= 2
    /\ llm_response # <<>>

\* C28: when call_llm reports that its attempts failed, it has posted to the
\* backend at least once, whatever MAX_RETRIES validate_config accepted.
C28_AttemptBeforeFailure == Exhausted => Contacts >= 1

\* C29: _default_provider is unset or names a provider in _providers, and
\* every model of _model_provider_mapping maps to a provider in _providers.
C29_TablesConsistent ==
    /\ _default_provider = NoneStr \/ HasKey(_providers, _default_provider)
    /\ \A i \in DOMAIN _model_provider_mapping :
          HasKey(_providers, _model_provider_mapping[i].v)

\* the provider call_llm would get for a model has a client
HasClient(model) ==
    LET Resolved(r) == ~r.raised /\ r.value # None => r.value.name \in clients
    IN  Resolved(get_provider_for_model(Current, env, model))

\* C30: once the service is made, every provider get_provider_for_model
\* returns has a client in LLMService.clients, and call_llm does not raise
\* for lack of a client.
C30_ClientForEveryProvider ==
    pc \notin {"import", "failed"} =>
        /\ \A model \in ModelNames : HasClient(model)
        /\ log # <<"ValueError: no client">>

=============================================================================
